---------------------------- MODULE Spec2Model ----------------------------
(***************************************************************************)
(* Asynchronous job lifecycle of the support-assistant backend: the job    *)
(* store (src/services/jobStore.js), the webhook dispatcher and its        *)
(* signature verifier (src/webhooks/openaiWebhook.js), cancellation and    *)
(* status query (src/handlers/cancelJob.js, getJobStatus.js) and the       *)
(* retention sweep (src/handlers/cleanupJobs.js).                          *)
(*                                                                         *)
(* Text is modelled as a sequence of atoms.  An atom is either one literal *)
(* character-like token ("," "=" " " "t" "v1" "x") or an opaque run of     *)
(* characters that contains no "," and no "=": the decimal digits of a     *)
(* number, the 43 data characters of the base64 form of a 32-byte digest   *)
(* (its 44th character is the "=" pad, a separate atom), or the 64 hex     *)
(* digits of a digest.  HMAC-SHA256 is the injective abstract function     *)
(* Hmac(key, message).                                                     *)
(***************************************************************************)
EXTENDS Integers, Sequences, FiniteSets, TLC

(***************************************************************************)
(* Program constants                                                       *)
(***************************************************************************)
SIGNATURE_TOLERANCE_SECONDS == 300
DEFAULT_RETENTION_DAYS == 14
DIGEST_LENGTH == 32

QUEUED == "queued"
IN_PROGRESS == "in_progress"
COMPLETED == "completed"
FAILED == "failed"
CANCELLED == "cancelled"

JobStatus == {QUEUED, IN_PROGRESS, COMPLETED, FAILED, CANCELLED}

\* Faults injected to test the properties: a short-circuit list that lacks one
\* of the terminal statuses.
FINAL_STATUSES_WithoutCompleted == {FAILED, CANCELLED}
FINAL_STATUSES_WithoutFailed == {COMPLETED, CANCELLED}

FINAL_STATUSES == {COMPLETED, FAILED, CANCELLED}

(***************************************************************************)
(* Keys, messages, digests                                                 *)
(***************************************************************************)
NoKey == [form |-> "none", mat |-> 0]

\* A JS string used directly as the HMAC key (createHmac('sha256', secret)).
RawKey(secret) == [form |-> IF secret.pfx THEN "raw-whsec" ELSE "raw", mat |-> secret.mat]

\* The bytes of Buffer.from(text, 'base64'): mat = 0 stands for text that
\* decodes to no byte at all.
Base64Key(mat) == [form |-> "bytes", mat |-> mat]

KeyLength(key) == IF key.mat = 0 THEN 0 ELSE DIGEST_LENGTH

NoBody == [json |-> FALSE, job |-> "", pad |-> 0]

NoDigest == [key |-> NoKey, id |-> <<>>, ts |-> 0, body |-> NoBody]

\* Fault injected to test the properties: a signed message that leaves the
\* body out.
IdPayload_WithoutBody(id, timestamp, rawBody) ==
    [id |-> id, ts |-> timestamp, body |-> NoBody]

\* `${timestamp}.${rawBody}`
NativePayload(timestamp, rawBody) == [id |-> <<>>, ts |-> timestamp, body |-> rawBody]

\* `${id}.${timestamp}.${rawBody}`
IdPayload(id, timestamp, rawBody) == [id |-> id, ts |-> timestamp, body |-> rawBody]

\* createHmac('sha256', key).update(payload).digest()
Hmac(key, payload) ==
    [key |-> key, id |-> payload.id, ts |-> payload.ts, body |-> payload.body]

(***************************************************************************)
(* Atoms and text                                                          *)
(***************************************************************************)
Lit(c) == [k |-> c, n |-> 0, d |-> NoDigest]
Num(n) == [k |-> "num", n |-> n, d |-> NoDigest]
Word(n) == [k |-> "word", n |-> n, d |-> NoDigest]
B64(d) == [k |-> "b64", n |-> 0, d |-> d]
Hex(d) == [k |-> "hex", n |-> 0, d |-> d]

Comma == Lit(",")
Eq == Lit("=")
Space == Lit(" ")

\* The text of a webhook id: one opaque atom; the empty id is the empty text.
IdText(id) == IF id = "" THEN <<>> ELSE <<[k |-> "id:" \o id, n |-> 0, d |-> NoDigest]>>

\* The canonical decimal text of an integer.
NumText(n) == <<Num(n)>>

\* base64 of a 32-byte digest: 43 data characters and one "=" pad.
Base64Text(d) == <<B64(d), Eq>>

\* hex of a 32-byte digest: 64 digits.
HexText(d) == <<Hex(d)>>

\* 'v' is the 48th character of the base64 alphabet; the first character of a
\* digest's base64 form is decided by the digest's first six bits.
FirstSextet(d) == (d.ts + d.body.pad) % 64

FirstChar(a) ==
    CASE a.k = "v1" -> "v"
      [] a.k = "b64" -> IF FirstSextet(a.d) = 47 THEN "v" ELSE "A"
      [] a.k = "hex" -> "0"
      [] a.k = "num" -> "0"
      [] OTHER -> a.k

\* String.prototype.startsWith('v')
StartsWithV(s) == s # <<>> /\ FirstChar(s[1]) = "v"

RECURSIVE TrimLeft(_)
TrimLeft(s) == IF s # <<>> /\ s[1] = Space THEN TrimLeft(Tail(s)) ELSE s

RECURSIVE TrimRight(_)
TrimRight(s) ==
    IF s # <<>> /\ s[Len(s)] = Space THEN TrimRight(SubSeq(s, 1, Len(s) - 1)) ELSE s

\* String.prototype.trim()
Trim(s) == TrimRight(TrimLeft(s))

\* s.indexOf(a), 1-based; 0 when a does not occur (JS: -1).
IndexOf(s, a) ==
    IF \E i \in 1..Len(s) : s[i] = a
    THEN CHOOSE i \in 1..Len(s) : s[i] = a /\ \A j \in 1..(i - 1) : s[j] # a
    ELSE 0

RECURSIVE SplitOn(_, _)
\* s.split(sep): always at least one part.
SplitOn(s, sep) ==
    LET i == IndexOf(s, sep)
    IN  IF i = 0 THEN <<s>>
        ELSE <<SubSeq(s, 1, i - 1)>> \o SplitOn(SubSeq(s, i + 1, Len(s)), sep)

MapTrim(parts) == [i \in 1..Len(parts) |-> Trim(parts[i])]

RECURSIVE FilterNonEmpty(_)
\* .filter(Boolean) on an array of strings
FilterNonEmpty(parts) ==
    IF parts = <<>> THEN <<>>
    ELSE IF Head(parts) = <<>> THEN FilterNonEmpty(Tail(parts))
    ELSE <<Head(parts)>> \o FilterNonEmpty(Tail(parts))

\* Number(text): finite for decimal text, 0 for the empty string, NaN otherwise.
NaN == [fin |-> FALSE, n |-> 0]
Finite(n) == [fin |-> TRUE, n |-> n]
ToNumber(s) ==
    LET t == Trim(s)
    IN  IF t = <<>> THEN Finite(0)
        ELSE IF Len(t) = 1 /\ t[1].k = "num" THEN Finite(t[1].n)
        ELSE NaN

\* !timestamp for a Number
Falsy(num) == ~num.fin \/ num.n = 0

(***************************************************************************)
(* Signature header parsers                                                *)
(***************************************************************************)
\* part.slice(0, eqIndex) and part.slice(eqIndex + 1), eqIndex 1-based
KeyOf(part, eqIndex) == SubSeq(part, 1, eqIndex - 1)
ValueOf(part, eqIndex) == SubSeq(part, eqIndex + 1, Len(part))

\* null for a parser that gives up
NoParse == [ok |-> FALSE, timestamp |-> NaN, signatures |-> <<>>]

RECURSIVE OpenAiParts(_, _)
\* the forEach of parseOpenAiSignature; acc = [timestamp, signatures]
OpenAiParts(parts, acc) ==
    IF parts = <<>> THEN acc
    ELSE LET part == Head(parts)
             eqIndex == IndexOf(part, Eq)
             key == KeyOf(part, eqIndex)
             value == ValueOf(part, eqIndex)
             next ==
                 IF eqIndex = 0 THEN acc
                 ELSE IF key = <<>> \/ value = <<>> THEN acc
                 ELSE IF key = <<Lit("t")>>
                      THEN [acc EXCEPT !.timestamp = ToNumber(value)]
                 ELSE IF StartsWithV(key)
                      THEN [acc EXCEPT !.signatures = Append(@, value)]
                 ELSE acc
         IN  OpenAiParts(Tail(parts), next)

parseOpenAiSignature(signatureHeader) ==
    IF Trim(signatureHeader) = <<>> THEN NoParse
    ELSE LET signatureParts == MapTrim(SplitOn(signatureHeader, Comma))
             got == OpenAiParts(signatureParts, [timestamp |-> NaN, signatures |-> <<>>])
         IN  IF Falsy(got.timestamp) \/ got.signatures = <<>> THEN NoParse
             ELSE [ok |-> TRUE, timestamp |-> got.timestamp, signatures |-> got.signatures]

RECURSIVE SvixParts(_)
\* the map/filter/map chain of parseSvixSignature
SvixParts(parts) ==
    IF parts = <<>> THEN <<>>
    ELSE LET part == Head(parts)
             eqIndex == IndexOf(part, Eq)
             version == KeyOf(part, eqIndex)
             value == ValueOf(part, eqIndex)
         IN  IF eqIndex # 0 /\ version # <<>> /\ value # <<>>
             THEN <<value>> \o SvixParts(Tail(parts))
             ELSE SvixParts(Tail(parts))

parseSvixSignature(signatureHeader) ==
    IF Trim(signatureHeader) = <<>> THEN NoParse
    ELSE LET signatures == SvixParts(MapTrim(SplitOn(signatureHeader, Comma)))
         IN  IF signatures = <<>> THEN NoParse
             ELSE [ok |-> TRUE, timestamp |-> NaN, signatures |-> signatures]

RECURSIVE StandardSegments(_, _, _)
\* the for loop of parseStandardSignature, from position index
StandardSegments(segments, index, signatures) ==
    IF index > Len(segments) THEN signatures
    ELSE LET segment == segments[index]
             eqIndex == IndexOf(segment, Eq)
             key == Trim(KeyOf(segment, eqIndex))
             value == Trim(ValueOf(segment, eqIndex))
             hasNext == index + 1 <= Len(segments)
         IN  IF eqIndex # 0
             THEN IF key # <<>> /\ StartsWithV(key) /\ value # <<>>
                  THEN StandardSegments(segments, index + 1, Append(signatures, value))
                  ELSE StandardSegments(segments, index + 1, signatures)
             ELSE IF StartsWithV(segment) /\ hasNext /\ ~StartsWithV(segments[index + 1])
                  THEN StandardSegments(segments, index + 2,
                                        Append(signatures, segments[index + 1]))
                  ELSE StandardSegments(segments, index + 1, signatures)

parseStandardSignature(signatureHeader) ==
    IF Trim(signatureHeader) = <<>> THEN NoParse
    ELSE LET segments == FilterNonEmpty(MapTrim(SplitOn(signatureHeader, Comma)))
             signatures == StandardSegments(segments, 1, <<>>)
         IN  IF segments = <<>> \/ signatures = <<>> THEN NoParse
             ELSE [ok |-> TRUE, timestamp |-> NaN, signatures |-> signatures]

(***************************************************************************)
(* Decoding and comparing signature candidates                             *)
(***************************************************************************)
NoBytes == [len |-> 0, d |-> NoDigest]

\* Buffer.from(text, 'base64'): decoding ends at the first "=" pad.
Base64Decode(text) ==
    LET pad == IndexOf(text, Eq)
        data == IF pad = 0 THEN text ELSE SubSeq(text, 1, pad - 1)
    IN  IF Len(data) = 1 /\ data[1].k = "b64" THEN [len |-> DIGEST_LENGTH, d |-> data[1].d]
        ELSE IF Len(data) = 1 /\ data[1].k = "hex" THEN [len |-> 48, d |-> NoDigest]
        ELSE IF Len(data) = 1 /\ data[1].k = "word" THEN [len |-> 3, d |-> NoDigest]
        ELSE NoBytes

\* Buffer.from(text, 'hex'): decoding ends at the first non-hex character.
HexDecode(text) ==
    IF text # <<>> /\ text[1].k = "hex" THEN [len |-> DIGEST_LENGTH, d |-> text[1].d]
    ELSE NoBytes

\* null is NoBytes
decodeSignatureCandidate(signature, expectedLength) ==
    LET FirstOfLength(base64Decoded, hexDecoded) ==
            IF base64Decoded.len = expectedLength THEN base64Decoded
            ELSE IF hexDecoded.len = expectedLength THEN hexDecoded
            ELSE NoBytes
    IN  IF signature = <<>> THEN NoBytes
        ELSE FirstOfLength(Base64Decode(signature), HexDecode(signature))

\* timingSafeEqual on two buffers of the same length
timingSafeEqual(a, b) == a.d = b

matchesSignature(key, payload, signatures) ==
    LET computed == Hmac(key, payload)
    IN  \E i \in 1..Len(signatures) :
            LET provided == decodeSignatureCandidate(signatures[i], DIGEST_LENGTH)
            IN  provided # NoBytes /\ timingSafeEqual(provided, computed)

\* the .some() of the Svix branch: base64 only
matchesSvixSignature(key, payload, signatures) ==
    LET computed == Hmac(key, payload)
    IN  \E i \in 1..Len(signatures) :
            LET provided == Base64Decode(signatures[i])
            IN  provided.len = DIGEST_LENGTH /\ timingSafeEqual(provided, computed)

\* secret.startsWith('whsec_') ? secret.slice(6) : secret, then base64-decoded
deriveStandardSecretKey(secret) == Base64Key(secret.mat)

(***************************************************************************)
(* unwrapWebhookEvent                                                      *)
(***************************************************************************)
HeaderNames ==
    {"x-openai-signature", "openai-signature", "svix-signature", "webhook-signature",
     "webhook-id", "svix-id", "webhook-timestamp", "svix-timestamp",
     "x-openai-timestamp", "openai-timestamp"}

\* A header that is absent (undefined) reads as the empty text: both are falsy.
NoHeaders == [h \in HeaderNames |-> <<>>]

RECURSIVE normaliseSignatureHeader(_, _)
\* the first candidate name whose header is truthy
normaliseSignatureHeader(headers, candidates) ==
    IF candidates = <<>> THEN <<>>
    ELSE IF headers[Head(candidates)] # <<>> THEN headers[Head(candidates)]
    ELSE normaliseSignatureHeader(headers, Tail(candidates))

\* Math.floor(Date.now() / 1000)
NowSeconds(nowMs) == nowMs \div 1000

\* Math.abs(nowSeconds - timestamp)
Abs(x) == IF x < 0 THEN -x ELSE x

OutsideTolerance(nowSeconds, timestamp) ==
    Abs(nowSeconds - timestamp) > SIGNATURE_TOLERANCE_SECONDS

\* JSON.parse(rawBody): the parsed event, or a throw
JsonParse(rawBody) == [ok |-> rawBody.json, jobId |-> rawBody.job]

Threw(message) == [ok |-> FALSE, error |-> message, jobId |-> ""]

\* The provider-native branch (x-openai-signature / openai-signature).
\* "" when the branch ends without a throw; verified tells whether it matched,
\* compared whether the signatures were compared with the digest.
OpenAiBranch(rawBody, header, secret, nowMs) ==
    LET Checked(parsed) ==
            IF ~parsed.ok
            THEN [error |-> "Malformed OpenAI webhook signature header.",
                  verified |-> FALSE, compared |-> FALSE]
            ELSE IF OutsideTolerance(NowSeconds(nowMs), parsed.timestamp.n)
            THEN [error |-> "OpenAI webhook timestamp outside the allowed tolerance.",
                  verified |-> FALSE, compared |-> FALSE]
            ELSE [error |-> "",
                  verified |-> matchesSignature(RawKey(secret),
                                                NativePayload(parsed.timestamp.n, rawBody),
                                                parsed.signatures),
                  compared |-> TRUE]
    IN  Checked(parseOpenAiSignature(header))

\* The broker-style branch (svix-id, svix-timestamp, svix-signature).
SvixBranch(rawBody, headers, header, secret, nowMs) ==
    LET svixIdHeader == headers["svix-id"]
        key == Base64Key(secret.mat)
        Checked(parsed, timestampHeader, timestamp) ==
            IF ~parsed.ok \/ timestampHeader = <<>> \/ svixIdHeader = <<>>
            THEN [error |-> "Malformed Svix webhook signature headers.",
                  verified |-> FALSE, compared |-> FALSE]
            ELSE IF ~timestamp.fin
            THEN [error |-> "Invalid Svix webhook timestamp.",
                  verified |-> FALSE, compared |-> FALSE]
            ELSE IF OutsideTolerance(NowSeconds(nowMs), timestamp.n)
            THEN [error |-> "Svix webhook timestamp outside the allowed tolerance.",
                  verified |-> FALSE, compared |-> FALSE]
            ELSE IF KeyLength(key) = 0
            THEN [error |-> "Decoded Svix webhook secret is empty.",
                  verified |-> FALSE, compared |-> FALSE]
            ELSE [error |-> "",
                  verified |-> matchesSvixSignature(key,
                                   IdPayload(svixIdHeader, timestamp.n, rawBody),
                                   parsed.signatures),
                  compared |-> TRUE]
        WithTimestamp(timestampHeader) ==
            Checked(parseSvixSignature(header), timestampHeader, ToNumber(timestampHeader))
    IN  WithTimestamp(normaliseSignatureHeader(headers,
            <<"svix-timestamp", "x-openai-timestamp", "openai-timestamp">>))

\* The unbranded/standard branch (webhook-id, webhook-timestamp, webhook-signature).
StandardBranch(rawBody, headers, header, secret, nowMs) ==
    LET webhookIdHeader == headers["webhook-id"]
        secretKey == deriveStandardSecretKey(secret)
        Checked(parsed, timestampHeader, timestamp) ==
            IF ~parsed.ok \/ timestampHeader = <<>> \/ webhookIdHeader = <<>>
            THEN [error |-> "Malformed Standard webhook signature headers.",
                  verified |-> FALSE, compared |-> FALSE]
            ELSE IF ~timestamp.fin
            THEN [error |-> "Invalid Standard webhook timestamp.",
                  verified |-> FALSE, compared |-> FALSE]
            ELSE IF OutsideTolerance(NowSeconds(nowMs), timestamp.n)
            THEN [error |-> "Standard webhook timestamp outside the allowed tolerance.",
                  verified |-> FALSE, compared |-> FALSE]
            ELSE IF KeyLength(secretKey) = 0
            THEN [error |-> "Invalid Standard webhook secret.",
                  verified |-> FALSE, compared |-> FALSE]
            ELSE [error |-> "",
                  verified |-> matchesSignature(secretKey,
                                   IdPayload(webhookIdHeader, timestamp.n, rawBody),
                                   parsed.signatures),
                  compared |-> TRUE]
        WithTimestamp(timestampHeader) ==
            Checked(parseStandardSignature(header), timestampHeader,
                    ToNumber(timestampHeader))
    IN  WithTimestamp(normaliseSignatureHeader(headers,
            <<"webhook-timestamp", "svix-timestamp", "x-openai-timestamp",
              "openai-timestamp">>))

NotTried == [error |-> "", verified |-> FALSE, compared |-> FALSE]

\* The three branches in their fixed order, then JSON.parse of the raw body.
unwrapWebhookEvent(rawBody, headers, secret, nowMs) ==
    LET openAiSignatureHeader ==
            normaliseSignatureHeader(headers, <<"x-openai-signature", "openai-signature">>)
        svixSignatureHeader == normaliseSignatureHeader(headers, <<"svix-signature">>)
        standardSignatureHeader == normaliseSignatureHeader(headers, <<"webhook-signature">>)
        Outcome(first, second, third) ==
            IF openAiSignatureHeader = <<>> /\ svixSignatureHeader = <<>>
               /\ standardSignatureHeader = <<>>
            THEN Threw("Missing webhook signature headers.")
            ELSE IF first.error # "" THEN Threw(first.error)
            ELSE IF second.error # "" THEN Threw(second.error)
            ELSE IF third.error # "" THEN Threw(third.error)
            ELSE IF ~(first.verified \/ second.verified \/ third.verified)
            THEN Threw("Webhook signature verification failed.")
            ELSE IF ~JsonParse(rawBody).ok THEN Threw("Invalid webhook payload.")
            ELSE [ok |-> TRUE, error |-> "", jobId |-> JsonParse(rawBody).jobId]
        AfterSvix(first, second) ==
            Outcome(first, second,
                    IF ~first.verified /\ ~second.verified /\ standardSignatureHeader # <<>>
                    THEN StandardBranch(rawBody, headers, standardSignatureHeader, secret,
                                        nowMs)
                    ELSE NotTried)
        AfterOpenAi(first) ==
            AfterSvix(first,
                      IF ~first.verified /\ svixSignatureHeader # <<>>
                      THEN SvixBranch(rawBody, headers, svixSignatureHeader, secret, nowMs)
                      ELSE NotTried)
    IN  AfterOpenAi(IF openAiSignatureHeader # <<>>
                    THEN OpenAiBranch(rawBody, openAiSignatureHeader, secret, nowMs)
                    ELSE NotTried)

(***************************************************************************)
(* Bounds of the model                                                     *)
(***************************************************************************)
NumSlots == 2      \* handler invocations in flight at once
MaxRuns == 3       \* handler invocations begun in one behaviour
NumJobs == 1       \* job identifiers the provider hands out
NumWebhookIds == 2 \* distinct delivery identifiers
MaxDayTicks == 1   \* clock advances of one day
StartMs == 1000000 \* the clock's first reading, in milliseconds

MILLIS_PER_DAY == 86400000

Slots == 1..NumSlots
Jobs == {"J" \o ToString(i) : i \in 1..NumJobs}
WebhookIds == {"w" \o ToString(i) : i \in 1..NumWebhookIds}

\* normaliseHeaderValue(headers['webhook-id']) as a name: "" when absent
IdName(text) ==
    IF text = <<>> THEN ""
    ELSE CHOOSE w \in WebhookIds \cup {"other"} : IdText(w) = text

(***************************************************************************)
(* Job records                                                             *)
(***************************************************************************)
Undefined == "undefined"
NoTime == -1

\* result: undefined, null, or a shaped payload
UndefinedResult == [v |-> "undefined", rawText |-> "", shape |-> ""]
NullResult == [v |-> "null", rawText |-> "", shape |-> ""]
Result(rawText, shape) == [v |-> "value", rawText |-> rawText, shape |-> shape]

\* error: undefined, null, or an object
UndefinedError == [v |-> "undefined", reason |-> Undefined, status |-> Undefined]
NullError == [v |-> "null", reason |-> Undefined, status |-> Undefined]
Error(reason, status) == [v |-> "value", reason |-> reason, status |-> status]

\* auxiliaryData: an object of optional keys; a key it does not hold reads
\* "absent"
AuxKeys == {"caseStatus", "agentName"}
NoAux == [k \in AuxKeys |-> "absent"]

\* the auxiliaryData the submitting handlers pass
SubmittedAux == [NoAux EXCEPT !["caseStatus"] = "new"]

\* Fault injected to test the properties: an update that replaces
\* auxiliaryData as a whole.
MergeAux_Replacing(existing, updates) == updates

\* {...existing.auxiliaryData, ...updates.auxiliaryData}
MergeAux(existing, updates) ==
    [k \in AuxKeys |-> IF updates[k] # "absent" THEN updates[k] ELSE existing[k]]

\* storage.get of a key that holds nothing
NoRecord ==
    [exists |-> FALSE, jobId |-> "", jobType |-> Undefined, status |-> Undefined,
     createdAt |-> NoTime, updatedAt |-> NoTime, expiresAt |-> NoTime,
     result |-> UndefinedResult, error |-> UndefinedError,
     hasLedger |-> FALSE, processedWebhookIds |-> <<>>, auxiliaryData |-> NoAux]

\* new Date(Date.now() + retentionDays * MILLIS_PER_DAY)
computeExpiryTimestamp(retentionDays, nowMs) == nowMs + retentionDays * MILLIS_PER_DAY

\* the record createJobRecord builds and stores: nowMs is the clock as
\* nowIso() reads it for createdAt and updatedAt, laterMs the clock as
\* computeExpiryTimestamp reads it afterwards
NewJobRecord(jobId, jobType, status, retentionDays, nowMs, laterMs) ==
    [exists |-> TRUE, jobId |-> jobId, jobType |-> jobType, status |-> status,
     createdAt |-> nowMs, updatedAt |-> nowMs,
     expiresAt |-> computeExpiryTimestamp(retentionDays, laterMs),
     result |-> NullResult, error |-> NullError,
     hasLedger |-> TRUE, processedWebhookIds |-> <<>>, auxiliaryData |-> SubmittedAux]

\* the shell updateJobRecord synthesises when the key holds nothing
ShellRecord(jobId, nowMs) ==
    [NoRecord EXCEPT !.exists = TRUE, !.jobId = jobId, !.createdAt = nowMs,
                     !.hasLedger = TRUE]

\* a partial update; a field that is not supplied is undefined
NoUpdates ==
    [status |-> Undefined, result |-> UndefinedResult, error |-> UndefinedError,
     ledgerGiven |-> FALSE, processedWebhookIds |-> <<>>,
     auxGiven |-> FALSE, auxiliaryData |-> NoAux]

\* Fault injected to test the properties: a merge that starts the retention
\* window again.
MergeRecord_Recomputing(existing, updates, nowMs) ==
    [existing EXCEPT
        !.status = IF updates.status # Undefined THEN updates.status ELSE existing.status,
        !.updatedAt = nowMs,
        !.expiresAt = computeExpiryTimestamp(DEFAULT_RETENTION_DAYS, nowMs),
        !.result = IF updates.result.v # "undefined" THEN updates.result ELSE existing.result,
        !.error = IF updates.error.v # "undefined" THEN updates.error ELSE existing.error,
        !.hasLedger = updates.ledgerGiven \/ existing.hasLedger,
        !.processedWebhookIds =
            IF updates.ledgerGiven THEN updates.processedWebhookIds
            ELSE existing.processedWebhookIds]

\* the merge of updateJobRecord: {...existing, ...updates, status, updatedAt},
\* result and error replaced when supplied (null included), auxiliaryData
\* merged key by key when supplied
MergeRecord(existing, updates, nowMs) ==
    [existing EXCEPT
        !.status = IF updates.status # Undefined THEN updates.status ELSE existing.status,
        !.updatedAt = nowMs,
        !.result = IF updates.result.v # "undefined" THEN updates.result ELSE existing.result,
        !.error = IF updates.error.v # "undefined" THEN updates.error ELSE existing.error,
        !.hasLedger = updates.ledgerGiven \/ existing.hasLedger,
        !.processedWebhookIds =
            IF updates.ledgerGiven THEN updates.processedWebhookIds
            ELSE existing.processedWebhookIds,
        !.auxiliaryData =
            IF updates.auxGiven
            THEN MergeAux(existing.auxiliaryData, updates.auxiliaryData)
            ELSE existing.auxiliaryData]

\* existing.includes(webhookId)
Includes(list, x) == \E i \in 1..Len(list) : list[i] = x

\* Fault injected to test the properties: a ledger that never records a delivery.
buildProcessedList_Unrecorded(existing, webhookId) == existing

\* Array.from(new Set(existing).add(webhookId)) for a list without repeats
buildProcessedList(existing, webhookId) ==
    IF webhookId = "" THEN existing
    ELSE IF Includes(existing, webhookId) THEN existing
    ELSE Append(existing, webhookId)

\* const { processedWebhookIds, ...sanitised } = record
Sanitise(record) == [record EXCEPT !.hasLedger = FALSE, !.processedWebhookIds = <<>>]

\* eventKeyFor(jobType, suffix), and the ternary of cancelJob
eventKeyFor(jobType, suffix) ==
    (IF jobType = "analysis" THEN "job-analysis" ELSE "job-response") \o "-" \o suffix

(***************************************************************************)
(* The provider's answers                                                  *)
(***************************************************************************)
\* What GET /responses/{id} returns: a status, and an output whose first
\* output_text block holds the JSON the job type asks for ("good"), text that
\* is not that JSON ("unshaped") or the empty text ("empty"), or that holds no
\* output_text block ("none").
Artifacts ==
    {[status |-> COMPLETED, output |-> "good"],
     [status |-> COMPLETED, output |-> "unshaped"],
     [status |-> COMPLETED, output |-> "empty"],
     [status |-> COMPLETED, output |-> "none"],
     [status |-> FAILED, output |-> "none"],
     [status |-> CANCELLED, output |-> "none"]}

\* extractResponseText: the trimmed text of the first output_text block, or
\* the literal 'No output returned'
extractResponseText(response) ==
    CASE response.output = "good" -> "TEXT"
      [] response.output = "unshaped" -> "PROSE"
      [] response.output = "empty" -> ""
      [] OTHER -> "No output returned"

\* no artifact has been retrieved
NoArtifact == [status |-> Undefined, output |-> "none"]

\* parseAnalysisResponse / parseFinalResponse: JSON.parse and the required
\* fields; FALSE is a throw
ParsesAsJson(text) == text = "TEXT"

(***************************************************************************)
(* Secrets and callbacks                                                   *)
(***************************************************************************)
\* "whsec_" followed by the base64 of key material 1
WebhookSecret == [pfx |-> TRUE, mat |-> 1]

\* undefined or the empty string
NoSecret == [pfx |-> FALSE, mat |-> 0]

\* Fault injected to test the properties: a secret is never taken for missing.
IsFalsySecret_Never(secret) == FALSE

IsFalsySecret(secret) == secret = NoSecret

\* context.environmentVariables, then process.env, then storage.getSecret
ensureWebhookSecret(fromContext, fromEnv, fromStorage) ==
    IF ~IsFalsySecret(fromContext) THEN fromContext
    ELSE IF ~IsFalsySecret(fromEnv) THEN fromEnv
    ELSE fromStorage

\* an event body: JSON naming a job ("" for none), or text that is not JSON;
\* pad tells apart bodies that differ in bytes but parse alike
EventBody(job, pad) == [json |-> TRUE, job |-> job, pad |-> pad]
NotJsonBody == [json |-> FALSE, job |-> "", pad |-> 0]

\* headers a sender makes for the unbranded/standard scheme, signing signedBody
StandardHeaders(id, timestamp, signedBody, secret) ==
    [NoHeaders EXCEPT
        !["webhook-id"] = IdText(id),
        !["webhook-timestamp"] = NumText(timestamp),
        !["webhook-signature"] =
            <<Lit("v1"), Comma>>
            \o Base64Text(Hmac(Base64Key(secret.mat),
                               IdPayload(IdText(id), timestamp, signedBody)))]

\* headers a sender makes for the provider-native scheme
NativeHeaders(timestamp, signedBody, secret) ==
    [NoHeaders EXCEPT
        !["x-openai-signature"] =
            <<Lit("t"), Eq, Num(timestamp), Comma, Lit("v1"), Eq>>
            \o HexText(Hmac(RawKey(secret), NativePayload(timestamp, signedBody)))]

Callback(headers, body) == [headers |-> headers, body |-> body]
NoCallback == Callback(NoHeaders, NotJsonBody)

\* The callbacks that reach the dispatcher at clock reading nowMs: genuine
\* deliveries for every job and delivery id, a provider-native delivery that
\* carries no webhook-id, a delivery that names no job, an unsigned one.
LifecycleCallbacks(nowMs) ==
    LET t == NowSeconds(nowMs)
    IN  {Callback(StandardHeaders(w, t, EventBody(j, 0), WebhookSecret), EventBody(j, 0)) :
            w \in WebhookIds, j \in Jobs}
        \cup {Callback(NativeHeaders(t, EventBody(j, 0), WebhookSecret), EventBody(j, 0)) :
            j \in Jobs}
        \cup {Callback(NoHeaders, EventBody(j, 0)) : j \in Jobs}
        \cup {Callback(StandardHeaders("w1", t, EventBody("", 0), WebhookSecret),
                       EventBody("", 0))}

(***************************************************************************)
(* State                                                                   *)
(***************************************************************************)
VARIABLES
    now,        \* Date.now(), in milliseconds
    store,      \* Forge storage under the async-job: prefix, by job id
    run,        \* the handler invocation in each slot
    created,    \* job ids the provider has handed out and the caller stored
    applied,    \* per job and delivery id: store writes by dispatcher runs carrying it
    notified,   \* per job and delivery id: events published by dispatcher runs carrying it
    lastCancel, \* per job: what the latest cancelling request returned and left stored
    started,    \* handler invocations begun so far
    probe       \* the callback put to the verifier, and what became of it

vars == <<now, store, run, created, applied, notified, lastCancel, started, probe>>

\* the answer of a handler: an HTTP-style status for the dispatcher, the
\* {success, job, message | error} object for a resolver
NoResponse ==
    [code |-> 0, body |-> "", success |-> FALSE, job |-> NoRecord, message |-> "",
     pruned |-> 0]

HttpResponse(code, body) == [NoResponse EXCEPT !.code = code, !.body = body]
Success(job, message) == [NoResponse EXCEPT !.success = TRUE, !.job = job, !.message = message]
Failure(message) == [NoResponse EXCEPT !.message = message]

NoCancel == [valid |-> FALSE, response |-> NoResponse, stored |-> NoRecord]

Idle ==
    [kind |-> "idle", pc |-> "idle", job |-> "", rejection |-> "", webhookId |-> "",
     tracked |-> NoRecord, updates |-> NoUpdates, merged |-> NoRecord,
     suffix |-> "", eventKey |-> "", expired |-> <<>>, cursor |-> 0,
     replay |-> FALSE,
     configured |-> FALSE, unwraps |-> 0, threw |-> FALSE, retrieved |-> NoArtifact,
     previous |-> NoCancel, response |-> NoResponse,
     gets |-> 0, sets |-> 0, deletes |-> 0, retrieves |-> 0, cancels |-> 0,
     published |-> <<>>, publishResult |-> ""]

Cap(n) == IF n >= 2 THEN 2 ELSE n + 1

\* what a sender put into a callback: the scheme and the layout of its
\* signature header, the delivery id, the timestamp and its form, the
\* digests it offers as candidates
NoSent ==
    [scheme |-> "none", layout |-> "none", timestampForm |-> "decimal", id |-> "",
     timestamp |-> 0, candidates |-> <<>>]

\* no callback is under test
NoProbe ==
    [stage |-> 2, sent |-> NoSent, also |-> NoSent, headers |-> NoHeaders,
     body |-> NotJsonBody, tampered |-> NotJsonBody, tamperedRun |-> Idle,
     originalRun |-> Idle]

Init ==
    /\ now = StartMs
    /\ store = [j \in Jobs |-> NoRecord]
    /\ run = [p \in Slots |-> Idle]
    /\ created = {}
    /\ applied = [j \in Jobs |-> [w \in WebhookIds |-> 0]]
    /\ notified = [j \in Jobs |-> [w \in WebhookIds |-> 0]]
    /\ lastCancel = [j \in Jobs |-> NoCancel]
    /\ started = 0
    /\ probe = NoProbe

Free(p) == run[p].kind = "idle"

\* An answer is handed to the caller before anything else happens: a finished
\* invocation shares no state with the others, so the order is immaterial.
NoneDone == \A q \in Slots : run[q].pc # "done"

\* A handler invocation begins in slot p.  Slots are interchangeable: the
\* lowest free slot is taken.
Begin(p) ==
    /\ NoneDone
    /\ Free(p)
    /\ \A q \in Slots : q < p => ~Free(q)
    /\ started < MaxRuns
    /\ started' = started + 1

\* the handler in slot p ends with this answer
Finish(p, r, response) == [r EXCEPT !.pc = "done", !.response = response]

(***************************************************************************)
(* The clock                                                               *)
(***************************************************************************)
Tick ==
    /\ NoneDone
    /\ now + MILLIS_PER_DAY <= StartMs + MaxDayTicks * MILLIS_PER_DAY
    /\ now' = now + MILLIS_PER_DAY
    /\ UNCHANGED <<store, run, created, applied, notified, lastCancel, started, probe>>

(***************************************************************************)
(* Job submission: createJobRecord                                         *)
(***************************************************************************)
\* elapsed: the milliseconds the clock moves between the two readings
CreateJob(jobId, jobType, status, retentionDays, elapsed) ==
    /\ NoneDone
    /\ jobId \notin created
    /\ store' = [store EXCEPT ![jobId] =
                    NewJobRecord(jobId, jobType, status, retentionDays, now,
                                 now + elapsed)]
    /\ created' = created \cup {jobId}
    /\ UNCHANGED <<now, run, applied, notified, lastCancel, started, probe>>

\* an exception that leaves the handler: the platform answers for it
Unhandled == HttpResponse(500, "unhandled exception")

(***************************************************************************)
(* Webhook dispatcher: run(event, context)                                 *)
(***************************************************************************)
\* Fault injected to test the properties: a catch block that logs the
\* verification error and goes on to the job lookup.
WebhookFront_GoesOn(cb, fromContext, fromEnv, fromStorage, nowMs) ==
    LET Logged(webhookEvent) ==
            [Idle EXCEPT !.kind = "webhook", !.unwraps = 1,
                         !.pc = IF cb.body.job = "" THEN "done" ELSE "get",
                         !.job = cb.body.job,
                         !.rejection = webhookEvent.error,
                         !.webhookId = IdName(cb.headers["webhook-id"])]
    IN  Logged(unwrapWebhookEvent(cb.body, cb.headers,
                                  ensureWebhookSecret(fromContext, fromEnv, fromStorage),
                                  nowMs))

\* Up to the first store access: the secret, the verification, the job id.
\* The invocation as it stands when run() returns early or reaches getJobRecord.
WebhookFront(cb, fromContext, fromEnv, fromStorage, nowMs) ==
    LET r == [Idle EXCEPT !.kind = "webhook"]
        Verified(webhookSecret, webhookEvent, webhookId) ==
            IF IsFalsySecret(webhookSecret)
            THEN [r EXCEPT !.pc = "done",
                           !.rejection = "OPENAI_WEBHOOK_SECRET not configured",
                           !.response = HttpResponse(401, "Webhook secret not configured")]
            ELSE IF ~webhookEvent.ok
            THEN [r EXCEPT !.pc = "done", !.unwraps = 1,
                           !.rejection = webhookEvent.error,
                           !.response = HttpResponse(400, "Invalid webhook signature")]
            ELSE IF webhookEvent.jobId = ""
            THEN [r EXCEPT !.pc = "done", !.unwraps = 1, !.webhookId = webhookId,
                           !.response = HttpResponse(200, "Ack: missing job id")]
            ELSE [r EXCEPT !.pc = "get", !.unwraps = 1, !.job = webhookEvent.jobId,
                           !.webhookId = webhookId]
        WithSecret(webhookSecret) ==
            Verified(webhookSecret,
                     unwrapWebhookEvent(cb.body, cb.headers, webhookSecret, nowMs),
                     IdName(cb.headers["webhook-id"]))
    IN  WithSecret(ensureWebhookSecret(fromContext, fromEnv, fromStorage))

WebhookArrive(p, cb, fromContext, fromEnv, fromStorage) ==
    /\ Begin(p)
    /\ LET Arrived(r) ==
               [r EXCEPT !.replay = r.pc = "get" /\ r.webhookId # ""
                                    /\ applied[r.job][r.webhookId] > 0,
                         !.configured = \E secret \in {fromContext, fromEnv, fromStorage} :
                                            secret # NoSecret]
       IN  run' = [run EXCEPT ![p] =
               Arrived(WebhookFront(cb, fromContext, fromEnv, fromStorage, now))]
    /\ UNCHANGED <<now, store, created, applied, notified, lastCancel>>

\* Fault injected to test the properties: a lookup that goes on to the
\* retrieval when the store holds no record of the job.
WebhookGet_GoesOn(p) ==
    /\ NoneDone
    /\ run[p].kind = "webhook" /\ run[p].pc = "get"
    /\ run' = [run EXCEPT ![p] =
          [@ EXCEPT !.tracked = store[run[p].job], !.gets = @ + 1, !.pc = "retrieve"]]
    /\ UNCHANGED <<now, store, created, applied, notified, lastCancel, started, probe>>

\* const trackedJob = await getJobRecord(jobId), and the duplicate check
WebhookGet(p) ==
    /\ NoneDone
    /\ run[p].kind = "webhook" /\ run[p].pc = "get"
    /\ LET trackedJob == store[run[p].job]
           r == [run[p] EXCEPT !.tracked = trackedJob, !.gets = @ + 1]
       IN  run' = [run EXCEPT ![p] =
               IF ~trackedJob.exists
               THEN Finish(p, r, HttpResponse(200, "Ack: job not tracked"))
               ELSE IF r.webhookId # ""
                       /\ Includes(trackedJob.processedWebhookIds, r.webhookId)
               THEN Finish(p, r, HttpResponse(200, "Ack: duplicate"))
               ELSE [r EXCEPT !.pc = "retrieve"]]
    /\ UNCHANGED <<now, store, created, applied, notified, lastCancel, started, probe>>

\* Fault injected to test the properties: a retrieval failure that leaves
\* the ledger alone.
RetrieveFailedUpdates_Unmarked(trackedJob, webhookId) ==
    [NoUpdates EXCEPT !.status = FAILED, !.error = Error("retrieve_failed", Undefined)]

\* the update of the retrieve_failed path
RetrieveFailedUpdates(trackedJob, webhookId) ==
    [NoUpdates EXCEPT
        !.status = FAILED,
        !.error = Error("retrieve_failed", Undefined),
        !.ledgerGiven = TRUE,
        !.processedWebhookIds = buildProcessedList(trackedJob.processedWebhookIds, webhookId)]

\* the update of the completed path
CompletedUpdates(trackedJob, webhookId, outputText) ==
    [NoUpdates EXCEPT
        !.status = COMPLETED,
        !.result = Result(outputText,
                          IF trackedJob.jobType = "analysis" THEN "analysis" ELSE "response"),
        !.error = NullError,
        !.ledgerGiven = TRUE,
        !.processedWebhookIds = buildProcessedList(trackedJob.processedWebhookIds, webhookId)]

\* the update of the failure path: no result is supplied
FailureUpdates(trackedJob, webhookId, responsePayload) ==
    [NoUpdates EXCEPT
        !.status = IF responsePayload.status = CANCELLED THEN CANCELLED ELSE FAILED,
        !.error = Error(Undefined, responsePayload.status),
        !.ledgerGiven = TRUE,
        !.processedWebhookIds = buildProcessedList(trackedJob.processedWebhookIds, webhookId)]

\* await openaiService.retrieveCompletion(jobId, context) and the shaping
WebhookRetrieve(p) ==
    /\ NoneDone
    /\ run[p].kind = "webhook" /\ run[p].pc = "retrieve"
    /\ \E threw \in BOOLEAN, responsePayload \in Artifacts :
          LET r == [run[p] EXCEPT !.retrieves = @ + 1, !.threw = threw,
                                  !.retrieved = IF threw THEN NoArtifact
                                                ELSE responsePayload]
              outputText == extractResponseText(responsePayload)
          IN  run' = [run EXCEPT ![p] =
                  IF threw
                  THEN [r EXCEPT !.pc = "update_get",
                                 !.updates = RetrieveFailedUpdates(r.tracked, r.webhookId),
                                 !.suffix = "failed",
                                 !.eventKey = eventKeyFor(r.tracked.jobType, "failed")]
                  ELSE IF responsePayload.status = COMPLETED /\ outputText # ""
                  THEN IF ParsesAsJson(outputText)
                       THEN [r EXCEPT !.pc = "update_get",
                                      !.updates = CompletedUpdates(r.tracked, r.webhookId,
                                                                   outputText),
                                      !.suffix = "completed"]
                       ELSE Finish(p, r, Unhandled)
                  ELSE [r EXCEPT !.pc = "update_get",
                                 !.updates = FailureUpdates(r.tracked, r.webhookId,
                                                            responsePayload),
                                 !.suffix = IF responsePayload.status = CANCELLED
                                            THEN "cancelled" ELSE "failed"]]
    /\ UNCHANGED <<now, store, created, applied, notified, lastCancel, started, probe>>

(***************************************************************************)
(* updateJobRecord, as the dispatcher and cancel call it                   *)
(***************************************************************************)
\* const existing = (await storage.get(key)) || shell, and the merge
UpdateGet(p) ==
    /\ NoneDone
    /\ run[p].pc = "update_get"
    /\ LET held == store[run[p].job]
           existing == IF held.exists THEN held ELSE ShellRecord(run[p].job, now)
       IN  run' = [run EXCEPT ![p] =
               [@ EXCEPT !.pc = "update_set", !.gets = @ + 1,
                         !.merged = MergeRecord(existing, run[p].updates, now)]]
    /\ UNCHANGED <<now, store, created, applied, notified, lastCancel, started, probe>>

\* await storage.set(key, merged)
UpdateSet(p) ==
    /\ NoneDone
    /\ run[p].pc = "update_set"
    /\ store' = [store EXCEPT ![run[p].job] = run[p].merged]
    /\ run' = [run EXCEPT ![p] = [@ EXCEPT !.pc = "publish", !.sets = @ + 1]]
    /\ applied' =
          IF run[p].kind = "webhook" /\ run[p].webhookId # ""
          THEN [applied EXCEPT ![run[p].job][run[p].webhookId] = Cap(@)]
          ELSE applied
    /\ UNCHANGED <<now, created, notified, lastCancel, started, probe>>

\* what appEvents.publish does: it resolves with a success result, resolves
\* with an error result, or throws
PublishOutcomes == {"success", "error", "throws"}

\* Fault injected to test the properties: a wrapper that lets the exception
\* of appEvents.publish through.
publishAppEvent_Rethrows(outcome) ==
    [raised |-> outcome = "throws", result |-> outcome]

\* publishAppEvent(key): the result of appEvents.publish, or null when it threw
publishAppEvent(outcome) ==
    IF outcome = "throws" THEN [raised |-> FALSE, result |-> "null"]
    ELSE [raised |-> FALSE, result |-> outcome]

\* await publishAppEvent(key), then the handler's return
Publish(p) ==
    /\ NoneDone
    /\ run[p].pc = "publish"
    /\ \E outcome \in PublishOutcomes :
       LET updated == run[p].merged
           publishing == publishAppEvent(outcome)
           key == IF run[p].kind = "cancel"
                  THEN IF updated.jobType = "analysis" THEN "job-analysis-cancelled"
                       ELSE "job-response-cancelled"
                  ELSE IF run[p].eventKey # "" THEN run[p].eventKey
                  ELSE eventKeyFor(updated.jobType, run[p].suffix)
           response ==
               IF publishing.raised THEN Unhandled
               ELSE IF run[p].kind = "cancel" THEN Success(Sanitise(updated), "")
               ELSE HttpResponse(200,
                        CASE run[p].eventKey # "" -> "Ack: retrieve failed"
                          [] run[p].suffix = "completed" -> "Ack: completed"
                          [] OTHER -> "Ack: failure")
       IN  /\ run' = [run EXCEPT ![p] =
                  Finish(p, [@ EXCEPT !.published = Append(@, key),
                                      !.publishResult = publishing.result],
                         response)]
           /\ notified' =
                  IF run[p].kind = "webhook" /\ run[p].webhookId # ""
                  THEN [notified EXCEPT ![run[p].job][run[p].webhookId] = Cap(@)]
                  ELSE notified
           /\ lastCancel' =
                  IF run[p].kind = "cancel"
                  THEN [lastCancel EXCEPT ![run[p].job] =
                           [valid |-> TRUE, response |-> response, stored |-> updated]]
                  ELSE lastCancel
    /\ UNCHANGED <<now, store, created, applied, started, probe>>

(***************************************************************************)
(* Cancellation: the cancel-job resolver                                   *)
(***************************************************************************)
\* the update cancel asks for
CancelUpdates(openaiStatus) ==
    [NoUpdates EXCEPT
        !.status = CANCELLED,
        !.result = NullResult,
        !.error = Error("cancelled_by_user", openaiStatus)]

\* what cancel answers for a record that is already settled
SettledResponse(record) ==
    Success(record, "Job already settled with status " \o record.status \o ".")

\* the job id check, const record = await getJobRecord(jobId), the two early returns
CancelGet(p, jobId) ==
    /\ Begin(p)
    /\ LET record == store[jobId]
           r == [Idle EXCEPT !.kind = "cancel", !.job = jobId, !.tracked = record,
                             !.gets = 1,
                             !.previous =
                                 IF lastCancel[jobId].valid
                                    /\ lastCancel[jobId].stored = record
                                 THEN lastCancel[jobId] ELSE NoCancel]
       IN  run' = [run EXCEPT ![p] =
               IF ~record.exists
               THEN Finish(p, r, Failure("No background job found for id " \o jobId \o "."))
               ELSE IF record.status \in FINAL_STATUSES
               THEN Finish(p, r, SettledResponse(record))
               ELSE [r EXCEPT !.pc = "cancel_call"]]
    /\ UNCHANGED <<now, store, created, applied, notified, lastCancel, probe>>

\* a request without a job id
CancelWithoutId(p) ==
    /\ Begin(p)
    /\ run' = [run EXCEPT ![p] =
          Finish(p, [Idle EXCEPT !.kind = "cancel"],
                 Failure("Job identifier is required to request cancellation."))]
    /\ UNCHANGED <<now, store, created, applied, notified, lastCancel, probe>>

\* Fault injected to test the properties: a cancel request that marks the
\* job cancelled also when the provider's cancellation call failed.
CancelProvider_WritesAnyway(p) ==
    /\ NoneDone
    /\ run[p].kind = "cancel" /\ run[p].pc = "cancel_call"
    /\ \E threw \in BOOLEAN :
          run' = [run EXCEPT ![p] =
              [@ EXCEPT !.pc = "update_get", !.cancels = @ + 1, !.threw = threw,
                        !.updates = CancelUpdates(CANCELLED)]]
    /\ UNCHANGED <<now, store, created, applied, notified, lastCancel, started, probe>>

\* const cancelResponse = await openaiService.cancelCompletion(jobId, context)
CancelProvider(p) ==
    /\ NoneDone
    /\ run[p].kind = "cancel" /\ run[p].pc = "cancel_call"
    /\ \E threw \in BOOLEAN :
          run' = [run EXCEPT ![p] =
              IF threw
              THEN Finish(p, [@ EXCEPT !.cancels = @ + 1, !.threw = TRUE], Unhandled)
              ELSE [@ EXCEPT !.pc = "update_get", !.cancels = @ + 1,
                             !.updates = CancelUpdates(CANCELLED)]]
    /\ UNCHANGED <<now, store, created, applied, notified, lastCancel, started, probe>>

(***************************************************************************)
(* Status query: the get-job-status resolver                               *)
(***************************************************************************)
\* Fault injected to test the properties: a status query that answers
\* success whether or not the store holds the record.
StatusQuery_AlwaysFound(p, jobId) ==
    /\ Begin(p)
    /\ run' = [run EXCEPT ![p] =
          Finish(p, [Idle EXCEPT !.kind = "status", !.job = jobId,
                                 !.tracked = store[jobId], !.gets = 1],
                 Success(Sanitise(store[jobId]), ""))]
    /\ UNCHANGED <<now, store, created, applied, notified, lastCancel, probe>>

StatusQuery(p, jobId) ==
    /\ Begin(p)
    /\ LET record == store[jobId]
           r == [Idle EXCEPT !.kind = "status", !.job = jobId, !.tracked = record, !.gets = 1]
       IN  run' = [run EXCEPT ![p] =
               IF ~record.exists
               THEN Finish(p, r, Failure("No background job found for id " \o jobId \o "."))
               ELSE Finish(p, r, Success(Sanitise(record), ""))]
    /\ UNCHANGED <<now, store, created, applied, notified, lastCancel, probe>>

StatusWithoutId(p) ==
    /\ Begin(p)
    /\ run' = [run EXCEPT ![p] =
          Finish(p, [Idle EXCEPT !.kind = "status"],
                 Failure("Job identifier is required to check status."))]
    /\ UNCHANGED <<now, store, created, applied, notified, lastCancel, probe>>

(***************************************************************************)
(* Retention sweep: listExpiredJobs and the scheduled cleanup              *)
(***************************************************************************)
JobAt(i) == "J" \o ToString(i)

\* Fault injected to test the properties: a record counted as expired a day
\* before its time.
IsExpired_DayEarly(value, nowMs) ==
    value.exists /\ value.expiresAt # NoTime /\ value.expiresAt <= nowMs + MILLIS_PER_DAY

\* value?.expiresAt && new Date(value.expiresAt).getTime() <= Date.now()
IsExpired(value, nowMs) ==
    value.exists /\ value.expiresAt # NoTime /\ value.expiresAt <= nowMs

RECURSIVE ExpiredFrom(_, _, _)
\* the records of the namespace scan, in key order, that have expired
ExpiredFrom(i, held, nowMs) ==
    IF i > NumJobs THEN <<>>
    ELSE (IF IsExpired(held[JobAt(i)], nowMs) THEN <<held[JobAt(i)]>> ELSE <<>>)
         \o ExpiredFrom(i + 1, held, nowMs)

listExpiredJobs(held, nowMs) == ExpiredFrom(1, held, nowMs)

Pruned(count) == [Success(NoRecord, "") EXCEPT !.pruned = count]

\* const expiredJobs = await listExpiredJobs()
SweepList(p) ==
    /\ Begin(p)
    /\ LET expiredJobs == listExpiredJobs(store, now)
           r == [Idle EXCEPT !.kind = "sweep", !.expired = expiredJobs, !.gets = 1]
       IN  run' = [run EXCEPT ![p] =
               IF expiredJobs = <<>> THEN Finish(p, r, Pruned(0))
               ELSE [r EXCEPT !.pc = "sweep_delete"]]
    /\ UNCHANGED <<now, store, created, applied, notified, lastCancel, probe>>

\* await deleteJobRecord(job.jobId) for the next job of the list; a
\* storage.delete that rejects is caught nowhere and ends the run
SweepDelete(p) ==
    /\ NoneDone
    /\ run[p].kind = "sweep" /\ run[p].pc = "sweep_delete"
    /\ \E threw \in BOOLEAN :
          LET job == Head(run[p].expired)
              r == [run[p] EXCEPT !.expired = Tail(@), !.deletes = @ + 1]
          IN  IF threw
              THEN /\ store' = store
                   /\ run' = [run EXCEPT ![p] =
                          Finish(p, [@ EXCEPT !.expired = Tail(@), !.threw = TRUE],
                                 Unhandled)]
              ELSE /\ store' = [store EXCEPT ![job.jobId] = NoRecord]
                   /\ run' = [run EXCEPT ![p] =
                          IF r.expired = <<>> THEN Finish(p, r, Pruned(r.deletes))
                          ELSE r]
    /\ UNCHANGED <<now, created, applied, notified, lastCancel, started, probe>>

(***************************************************************************)
(* The caller receives the answer and the invocation ends                  *)
(***************************************************************************)
Return(p) ==
    /\ run[p].pc = "done"
    /\ run' = [run EXCEPT ![p] = Idle]
    /\ UNCHANGED <<now, store, created, applied, notified, lastCancel, started, probe>>

(***************************************************************************)
(* Specifications                                                          *)
(***************************************************************************)
\* What the submitting handlers pass to createJobRecord: the job type, the
\* status the provider reported, the retention in days; and the milliseconds
\* that pass between the two clock readings of the call.
Submissions ==
    {[jobType |-> "analysis", status |-> QUEUED, retentionDays |-> 1, elapsed |-> 0],
     [jobType |-> "response", status |-> IN_PROGRESS,
      retentionDays |-> DEFAULT_RETENTION_DAYS, elapsed |-> 1]}

\* Where the webhook secret is configured: the invocation context, the
\* process environment, secret storage (a failed storage read yields none),
\* or nowhere.
SecretSources ==
    {<<WebhookSecret, NoSecret, NoSecret>>, <<NoSecret, WebhookSecret, NoSecret>>,
     <<NoSecret, NoSecret, WebhookSecret>>, <<NoSecret, NoSecret, NoSecret>>}

\* Spec: submission, dispatcher, cancel and status query, each invocation
\* running concurrently with the others, one await at a time.
Next ==
    \/ \E j \in Jobs, s \in Submissions :
          CreateJob(j, s.jobType, s.status, s.retentionDays, s.elapsed)
    \/ \E p \in Slots, cb \in LifecycleCallbacks(now), from \in SecretSources :
          WebhookArrive(p, cb, from[1], from[2], from[3]) /\ UNCHANGED probe
    \/ \E p \in Slots : WebhookGet(p)
    \/ \E p \in Slots : WebhookRetrieve(p)
    \/ \E p \in Slots : UpdateGet(p)
    \/ \E p \in Slots : UpdateSet(p)
    \/ \E p \in Slots : Publish(p)
    \/ \E p \in Slots, j \in Jobs : CancelGet(p, j)
    \/ \E p \in Slots : CancelWithoutId(p)
    \/ \E p \in Slots : CancelProvider(p)
    \/ \E p \in Slots, j \in Jobs : StatusQuery(p, j)
    \/ \E p \in Slots : StatusWithoutId(p)
    \/ \E p \in Slots : Return(p)

Spec == Init /\ [][Next]_vars

\* SeqSpec: the same handlers, one invocation at a time: an invocation begins
\* only when no other is in flight.
Quiet == \A q \in Slots : Free(q)

SeqNext ==
    \/ \E j \in Jobs, s \in Submissions :
          CreateJob(j, s.jobType, s.status, s.retentionDays, s.elapsed)
    \/ /\ Quiet
       /\ \E p \in Slots, cb \in LifecycleCallbacks(now), from \in SecretSources :
             WebhookArrive(p, cb, from[1], from[2], from[3]) /\ UNCHANGED probe
    \/ \E p \in Slots : WebhookGet(p)
    \/ \E p \in Slots : WebhookRetrieve(p)
    \/ \E p \in Slots : UpdateGet(p)
    \/ \E p \in Slots : UpdateSet(p)
    \/ \E p \in Slots : Publish(p)
    \/ Quiet /\ \E p \in Slots, j \in Jobs : CancelGet(p, j)
    \/ Quiet /\ \E p \in Slots : CancelWithoutId(p)
    \/ \E p \in Slots : CancelProvider(p)
    \/ Quiet /\ \E p \in Slots, j \in Jobs : StatusQuery(p, j)
    \/ Quiet /\ \E p \in Slots : StatusWithoutId(p)
    \/ \E p \in Slots : Return(p)

SeqSpec == Init /\ [][SeqNext]_vars

\* RetentionSpec: the handlers of SeqSpec together with the clock and the
\* scheduled sweep; a sweep may begin while another invocation is in flight.
RetentionNext ==
    \/ \E j \in Jobs, s \in Submissions :
          CreateJob(j, s.jobType, s.status, s.retentionDays, s.elapsed)
    \/ Tick
    \/ \E p \in Slots : SweepList(p)
    \/ \E p \in Slots : SweepDelete(p)
    \/ /\ Quiet
       /\ \E p \in Slots, cb \in LifecycleCallbacks(now), from \in SecretSources :
             WebhookArrive(p, cb, from[1], from[2], from[3]) /\ UNCHANGED probe
    \/ \E p \in Slots : WebhookGet(p)
    \/ \E p \in Slots : WebhookRetrieve(p)
    \/ \E p \in Slots : UpdateGet(p)
    \/ \E p \in Slots : UpdateSet(p)
    \/ \E p \in Slots : Publish(p)
    \/ Quiet /\ \E p \in Slots, j \in Jobs : CancelGet(p, j)
    \/ Quiet /\ \E p \in Slots : CancelWithoutId(p)
    \/ \E p \in Slots : CancelProvider(p)
    \/ Quiet /\ \E p \in Slots, j \in Jobs : StatusQuery(p, j)
    \/ Quiet /\ \E p \in Slots : StatusWithoutId(p)
    \/ \E p \in Slots : Return(p)

RetentionSpec == Init /\ [][RetentionNext]_vars

(***************************************************************************)
(* updateJobRecord put to the test: partial updates of a stored record     *)
(***************************************************************************)
\* the records storage may hold under the key before an update
StoredRecords(jobId) ==
    {[NewJobRecord(jobId, "response", status, DEFAULT_RETENTION_DAYS, StartMs, StartMs)
         EXCEPT !.result = result, !.error = error, !.auxiliaryData = auxiliaryData] :
        status \in {IN_PROGRESS, COMPLETED},
        result \in {NullResult, Result("TEXT", "final")},
        error \in {NullError, Error("retrieve_failed", Undefined)},
        auxiliaryData \in [AuxKeys -> {"absent", "new"}]}

\* the updates argument of updateJobRecord
Partials ==
    {[NoUpdates EXCEPT !.status = status, !.result = result, !.error = error,
                       !.auxGiven = TRUE, !.auxiliaryData = auxiliaryData] :
        status \in {Undefined, FAILED},
        result \in {UndefinedResult, NullResult, Result("PROSE", "final")},
        error \in {UndefinedError, NullError},
        auxiliaryData \in {[NoAux EXCEPT !["agentName"] = "changed"],
                           [NoAux EXCEPT !["caseStatus"] = "changed"]}}
    \cup {[NoUpdates EXCEPT !.status = status, !.result = result] :
            status \in {Undefined, FAILED},
            result \in {UndefinedResult, NullResult}}

\* storage holds a record or nothing under the key
UpdateInit ==
    /\ now = StartMs
    /\ store \in [Jobs -> UNION {StoredRecords(j) : j \in Jobs} \cup {NoRecord}]
    /\ \A j \in Jobs : store[j].exists => store[j].jobId = j
    /\ run = [p \in Slots |-> Idle]
    /\ created = {j \in Jobs : store[j].exists}
    /\ applied = [j \in Jobs |-> [w \in WebhookIds |-> 0]]
    /\ notified = [j \in Jobs |-> [w \in WebhookIds |-> 0]]
    /\ lastCancel = [j \in Jobs |-> NoCancel]
    /\ started = 0
    /\ probe = NoProbe

\* updateJobRecord(jobId, updates) is called
UpdateCall(p, jobId, updates) ==
    /\ Begin(p)
    /\ run' = [run EXCEPT ![p] =
          [Idle EXCEPT !.kind = "update", !.pc = "update_get", !.job = jobId,
                       !.updates = updates]]
    /\ UNCHANGED <<now, store, created, applied, notified, lastCancel, probe>>

\* return merged
UpdateReturn(p) ==
    /\ NoneDone
    /\ run[p].kind = "update" /\ run[p].pc = "publish"
    /\ run' = [run EXCEPT ![p] = Finish(p, @, Success(run[p].merged, ""))]
    /\ UNCHANGED <<now, store, created, applied, notified, lastCancel, started, probe>>

UpdateNext ==
    \/ Tick
    \/ Quiet /\ \E p \in Slots, j \in Jobs, updates \in Partials : UpdateCall(p, j, updates)
    \/ \E p \in Slots : UpdateGet(p)
    \/ \E p \in Slots : UpdateSet(p)
    \/ \E p \in Slots : UpdateReturn(p)
    \/ \E p \in Slots : Return(p)

UpdateSpec == UpdateInit /\ [][UpdateNext]_vars

(***************************************************************************)
(* The verifier put to the test                                            *)
(***************************************************************************)
\* a second secret, held by a sender that is not the provider
ForgedSecret == [pfx |-> TRUE, mat |-> 2]

\* The digest a scheme prescribes: the provider-native scheme keys the HMAC
\* with the secret as it stands and signs "timestamp.body"; the other two key
\* it with the base64-decoded secret and sign "id.timestamp.body".
SchemeDigest(scheme, id, timestamp, rawBody, secret) ==
    IF scheme = "native"
    THEN Hmac(RawKey(secret), NativePayload(timestamp, rawBody))
    ELSE Hmac(Base64Key(secret.mat), IdPayload(IdText(id), timestamp, rawBody))

\* one versioned candidate, as the layout writes it
VersionedText(layout, d) ==
    CASE layout = "hex" -> <<Lit("v1"), Eq>> \o HexText(d)
      [] layout = "comma" -> <<Lit("v1"), Comma>> \o Base64Text(d)
      [] layout = "bare" -> Base64Text(d)
      [] OTHER -> <<Lit("v1"), Eq>> \o Base64Text(d)

RECURSIVE SignatureList(_, _)
\* the candidates, comma-separated
SignatureList(layout, candidates) ==
    IF candidates = <<>> THEN <<>>
    ELSE IF Len(candidates) = 1 THEN VersionedText(layout, candidates[1])
    ELSE VersionedText(layout, candidates[1]) \o <<Comma>>
         \o SignatureList(layout, Tail(candidates))

\* the headers a sender writes for what it sends
SentHeaders(sent) ==
    LET Written(timestampText, signatureText) ==
            CASE sent.scheme = "native" ->
                     [NoHeaders EXCEPT
                         !["x-openai-signature"] =
                             <<Lit("t"), Eq>> \o timestampText \o <<Comma>> \o signatureText]
              [] sent.scheme = "svix" ->
                     [NoHeaders EXCEPT
                         !["svix-id"] = IdText(sent.id),
                         !["svix-timestamp"] = timestampText,
                         !["svix-signature"] = signatureText]
              [] sent.scheme = "standard" ->
                     [NoHeaders EXCEPT
                         !["webhook-id"] = IdText(sent.id),
                         !["webhook-timestamp"] = timestampText,
                         !["webhook-signature"] = signatureText]
              [] OTHER -> NoHeaders
    IN  Written(IF sent.timestampForm = "decimal" THEN NumText(sent.timestamp)
                ELSE <<Word(1)>>,
                SignatureList(sent.layout, sent.candidates))

\* The signature layouts of the three schemes: t=..,v1=<hex|base64> for the
\* provider-native one; v1,<base64> and v1=<base64> for the other two.
Layouts ==
    {[scheme |-> "native", layout |-> "hex"],
     [scheme |-> "native", layout |-> "base64"],
     [scheme |-> "svix", layout |-> "comma"],
     [scheme |-> "svix", layout |-> "equals"],
     [scheme |-> "standard", layout |-> "comma"],
     [scheme |-> "standard", layout |-> "equals"]}

\* seconds between the sender's timestamp and the verifier's clock
Offsets ==
    {-(SIGNATURE_TOLERANCE_SECONDS + 1), -SIGNATURE_TOLERANCE_SECONDS, 0,
     SIGNATURE_TOLERANCE_SECONDS, SIGNATURE_TOLERANCE_SECONDS + 1}

\* The bodies a callback may carry: two events that differ in a byte, a
\* third whose digests at the clock's first reading begin with 'v' in base64,
\* and text that is not JSON.
Bodies == {EventBody(JobAt(1), 0), EventBody(JobAt(1), 1), EventBody(JobAt(1), 7),
           NotJsonBody}

\* the candidates of a sender: its own digest, a digest made under another
\* secret, or both
CandidateLists(genuine, forged) == {<<genuine>>, <<forged>>, <<forged, genuine>>}

\* A callback whose candidates were made for signedBody, and the body that
\* replaces signedBody when the callback is tampered with.
Probe(sent, signedBody, tampered) ==
    [NoProbe EXCEPT !.stage = 0, !.sent = sent, !.headers = SentHeaders(sent),
                    !.body = signedBody, !.tampered = tampered]

SentBy(l, timestampForm, timestamp, signedBody) ==
    {[scheme |-> l.scheme, layout |-> l.layout, timestampForm |-> timestampForm,
      id |-> "w1", timestamp |-> timestamp, candidates |-> c] :
        c \in CandidateLists(
                  SchemeDigest(l.scheme, "w1", timestamp, signedBody, WebhookSecret),
                  SchemeDigest(l.scheme, "w1", timestamp, signedBody, ForgedSecret))}

\* the callbacks put to the verifier at clock reading nowMs
Probes(nowMs) ==
    LET Tampered(signedBody) == Bodies \ {signedBody}
    IN  UNION {
            {Probe(sent, signedBody, tampered) :
                sent \in SentBy(l, "decimal", NowSeconds(nowMs) + offset, signedBody)
                          \cup (IF offset = 0
                                THEN SentBy(l, "garbled", NowSeconds(nowMs), signedBody)
                                ELSE {}),
                tampered \in Tampered(signedBody)} :
            l \in Layouts, offset \in Offsets, signedBody \in Bodies}
        \cup {Probe(NoSent, signedBody, tampered) :
                signedBody \in Bodies, tampered \in Bodies}

\* a tracked job, and one callback to deliver
VerifyInit ==
    /\ now = StartMs
    /\ store = [j \in Jobs |-> NewJobRecord(j, "analysis", QUEUED, DEFAULT_RETENTION_DAYS,
                                             StartMs, StartMs)]
    /\ run = [p \in Slots |-> Idle]
    /\ created = Jobs
    /\ applied = [j \in Jobs |-> [w \in WebhookIds |-> 0]]
    /\ notified = [j \in Jobs |-> [w \in WebhookIds |-> 0]]
    /\ lastCancel = [j \in Jobs |-> NoCancel]
    /\ started = 0
    /\ probe \in Probes(StartMs)

\* The callback reaches the dispatcher: first with the body replaced, then as
\* it was sent.
VerifyDeliver(p) ==
    /\ probe.stage < 2
    /\ Quiet
    /\ WebhookArrive(p,
                     Callback(probe.headers,
                              IF probe.stage = 0 THEN probe.tampered ELSE probe.body),
                     WebhookSecret, NoSecret, NoSecret)
    /\ probe' = [probe EXCEPT
                    !.stage = @ + 1,
                    !.tamperedRun = IF probe.stage = 0 THEN run'[p] ELSE @,
                    !.originalRun = IF probe.stage = 1 THEN run'[p] ELSE @]

VerifyNext ==
    \/ \E p \in Slots : VerifyDeliver(p)
    \/ \E p \in Slots : WebhookGet(p)
    \/ \E p \in Slots : WebhookRetrieve(p)
    \/ \E p \in Slots : UpdateGet(p)
    \/ \E p \in Slots : UpdateSet(p)
    \/ \E p \in Slots : Publish(p)
    \/ \E p \in Slots : Return(p)

\* VerifySpec: every callback of Probes, delivered to the dispatcher.
VerifySpec == VerifyInit /\ [][VerifyNext]_vars

(***************************************************************************)
(* The verifier put to the test: callbacks with headers of two schemes     *)
(***************************************************************************)
\* the headers of a callback on which two senders wrote, each those of its
\* own scheme
MixedHeaders(earlier, later) ==
    [h \in HeaderNames |->
        IF SentHeaders(earlier)[h] # <<>> THEN SentHeaders(earlier)[h]
        ELSE SentHeaders(later)[h]]

\* Callbacks with the headers of two schemes.  Those of the scheme tried
\* later are well-formed and fresh; those of the scheme tried earlier are
\* well-formed and fresh, stale, or malformed.
MixedProbes(nowMs) ==
    LET Pairs == {<<[scheme |-> "native", layout |-> "hex"],
                    [scheme |-> "svix", layout |-> "equals"]>>,
                  <<[scheme |-> "native", layout |-> "hex"],
                    [scheme |-> "standard", layout |-> "equals"]>>,
                  <<[scheme |-> "svix", layout |-> "equals"],
                    [scheme |-> "standard", layout |-> "equals"]>>}
        Earlier(l, signedBody) ==
            SentBy(l, "decimal", NowSeconds(nowMs), signedBody)
            \cup SentBy(l, "decimal",
                        NowSeconds(nowMs) - (SIGNATURE_TOLERANCE_SECONDS + 1), signedBody)
            \cup SentBy(l, "garbled", NowSeconds(nowMs), signedBody)
    IN  UNION {
            {[Probe(later, signedBody, EventBody(JobAt(1), 1))
                 EXCEPT !.also = earlier, !.headers = MixedHeaders(earlier, later)] :
                earlier \in Earlier(pair[1], signedBody),
                later \in SentBy(pair[2], "decimal", NowSeconds(nowMs), signedBody)} :
            pair \in Pairs, signedBody \in {EventBody(JobAt(1), 0), NotJsonBody}}

\* Callbacks of one scheme whose signature header holds the digest without a
\* version before it.
UnversionedProbes(nowMs) ==
    UNION {
        {Probe(sent, EventBody(JobAt(1), 0), EventBody(JobAt(1), 1)) :
            sent \in SentBy([scheme |-> scheme, layout |-> "bare"], "decimal",
                            NowSeconds(nowMs) - age, EventBody(JobAt(1), 0))} :
        scheme \in {"native", "svix", "standard"},
        age \in {0, SIGNATURE_TOLERANCE_SECONDS + 1}}

\* a tracked job, and one callback to deliver: of one scheme, without a
\* version, or with the headers of two schemes
DispatchInit ==
    /\ now = StartMs
    /\ store = [j \in Jobs |-> NewJobRecord(j, "analysis", QUEUED, DEFAULT_RETENTION_DAYS,
                                             StartMs, StartMs)]
    /\ run = [p \in Slots |-> Idle]
    /\ created = Jobs
    /\ applied = [j \in Jobs |-> [w \in WebhookIds |-> 0]]
    /\ notified = [j \in Jobs |-> [w \in WebhookIds |-> 0]]
    /\ lastCancel = [j \in Jobs |-> NoCancel]
    /\ started = 0
    /\ probe \in Probes(StartMs) \cup UnversionedProbes(StartMs) \cup MixedProbes(StartMs)

DispatchSpec == DispatchInit /\ [][VerifyNext]_vars

(***************************************************************************)
(* A callback delivered a second time                                      *)
(***************************************************************************)
\* the sender delivers the callback once more, as it sent it the first time
ReplayDeliver(p) ==
    /\ probe.stage = 2
    /\ Quiet
    /\ WebhookArrive(p, Callback(probe.headers, probe.body),
                     WebhookSecret, NoSecret, NoSecret)
    /\ probe' = [probe EXCEPT !.stage = 3]

\* the deliveries of VerifySpec, and then the second delivery
ReplayNext ==
    \/ VerifyNext
    \/ \E p \in Slots : ReplayDeliver(p)

\* ReplaySpec: every callback of DispatchInit, delivered tampered, as sent,
\* and as sent once more.
ReplaySpec == DispatchInit /\ [][ReplayNext]_vars

(***************************************************************************)
(* One callback and one cancel request race for one job                    *)
(***************************************************************************)
\* a tracked job that is not settled, and one signed callback for it that
\* waits to be delivered
RaceInit ==
    /\ now = StartMs
    /\ store = [j \in Jobs |-> NewJobRecord(j, "analysis", QUEUED, DEFAULT_RETENTION_DAYS,
                                             StartMs, StartMs)]
    /\ run = [p \in Slots |-> Idle]
    /\ created = Jobs
    /\ applied = [j \in Jobs |-> [w \in WebhookIds |-> 0]]
    /\ notified = [j \in Jobs |-> [w \in WebhookIds |-> 0]]
    /\ lastCancel = [j \in Jobs |-> NoCancel]
    /\ started = 0
    /\ probe \in {[Probe(sent, EventBody(JobAt(1), 0), EventBody(JobAt(1), 1))
                      EXCEPT !.stage = 1] :
                    sent \in SentBy([scheme |-> "standard", layout |-> "equals"],
                                    "decimal", NowSeconds(StartMs),
                                    EventBody(JobAt(1), 0))}

\* the callback reaches the dispatcher, whatever another invocation is doing
RaceDeliver(p) ==
    /\ probe.stage = 1
    /\ WebhookArrive(p, Callback(probe.headers, probe.body),
                     WebhookSecret, NoSecret, NoSecret)
    /\ probe' = [probe EXCEPT !.stage = 2, !.originalRun = run'[p]]

\* One dispatcher run and one cancel request, begun in either order and
\* interleaved at every await.
RaceNext ==
    \/ \E p \in Slots : RaceDeliver(p)
    \/ /\ started = IF probe.stage = 2 THEN 1 ELSE 0
       /\ \E p \in Slots, j \in Jobs : CancelGet(p, j)
    \/ \E p \in Slots : WebhookGet(p)
    \/ \E p \in Slots : WebhookRetrieve(p)
    \/ \E p \in Slots : CancelProvider(p)
    \/ \E p \in Slots : UpdateGet(p)
    \/ \E p \in Slots : UpdateSet(p)
    \/ \E p \in Slots : Publish(p)
    \/ \E p \in Slots : Return(p)

RaceSpec == RaceInit /\ [][RaceNext]_vars

(***************************************************************************)
(* Submission races the job's completion callback                          *)
(***************************************************************************)
\* the provider has accepted the job and holds one signed callback for it;
\* the submitting handler has not yet stored the record
SubmitInit ==
    /\ now = StartMs
    /\ store = [j \in Jobs |-> NoRecord]
    /\ run = [p \in Slots |-> Idle]
    /\ created = {}
    /\ applied = [j \in Jobs |-> [w \in WebhookIds |-> 0]]
    /\ notified = [j \in Jobs |-> [w \in WebhookIds |-> 0]]
    /\ lastCancel = [j \in Jobs |-> NoCancel]
    /\ started = 0
    /\ probe \in {[Probe(sent, EventBody(JobAt(1), 0), EventBody(JobAt(1), 1))
                      EXCEPT !.stage = 1] :
                    sent \in SentBy([scheme |-> "standard", layout |-> "equals"],
                                    "decimal", NowSeconds(StartMs),
                                    EventBody(JobAt(1), 0))}

\* the provider receives the dispatcher's answer to its callback
SubmitAnswer(p) ==
    /\ run[p].pc = "done"
    /\ run' = [run EXCEPT ![p] = Idle]
    /\ probe' = [probe EXCEPT !.stage = 3, !.originalRun = run[p]]
    /\ UNCHANGED <<now, store, created, applied, notified, lastCancel, started>>

\* The submission's store write and the one dispatcher run for the job's
\* callback, begun in either order and interleaved at every await.
SubmitNext ==
    \/ \E s \in Submissions :
          CreateJob(JobAt(1), s.jobType, s.status, s.retentionDays, s.elapsed)
    \/ \E p \in Slots : RaceDeliver(p)
    \/ \E p \in Slots : WebhookGet(p)
    \/ \E p \in Slots : WebhookRetrieve(p)
    \/ \E p \in Slots : UpdateGet(p)
    \/ \E p \in Slots : UpdateSet(p)
    \/ \E p \in Slots : Publish(p)
    \/ \E p \in Slots : SubmitAnswer(p)

SubmitSpec == SubmitInit /\ [][SubmitNext]_vars

(***************************************************************************)
(* listExpiredJobs put to the test: a namespace scan served in pages       *)
(***************************************************************************)
ScanLen == 3       \* keys of the job namespace in the paged scan
PageMax == 2       \* most records the storage returns in one page
NoCursor == 0

ScanKeys == {JobAt(i) : i \in 1..ScanLen}

\* the records a key of the namespace may hold when the sweep begins: one
\* that expires at the first reading of the clock, one that expires a day
\* later, one that outlives the behaviour, and one rebuilt by an update
ScanRecords(jobId) ==
    { NewJobRecord(jobId, "analysis", QUEUED, 1,
                   StartMs - MILLIS_PER_DAY, StartMs - MILLIS_PER_DAY),
      NewJobRecord(jobId, "response", IN_PROGRESS, 1, StartMs, StartMs),
      NewJobRecord(jobId, "response", IN_PROGRESS, DEFAULT_RETENTION_DAYS,
                   StartMs, StartMs),
      ShellRecord(jobId, StartMs) }

RECURSIVE NamespaceFrom(_, _)
\* storage.query().where('key', startsWith(JOB_KEY_PREFIX)): the values
\* under the keys that exist, in key order
NamespaceFrom(i, held) ==
    IF i > ScanLen THEN <<>>
    ELSE (IF held[JobAt(i)].exists THEN <<held[JobAt(i)]>> ELSE <<>>)
         \o NamespaceFrom(i + 1, held)

\* query.cursor(cursor).getMany(), or query.getMany() without a cursor: the
\* next size values after the cursor, and a nextCursor when the storage has
\* more to serve
GetMany(held, cursor, size, more) ==
    LET all == NamespaceFrom(1, held)
        from == IF cursor = NoCursor THEN 1 ELSE cursor
        upto == IF from + size - 1 < Len(all) THEN from + size - 1 ELSE Len(all)
    IN  [results |-> SubSeq(all, from, upto),
         nextCursor |-> IF upto < Len(all) \/ more THEN upto + 1 ELSE NoCursor]

RECURSIVE ExpiredOf(_, _)
\* for (const { value } of response.results) if (...) expired.push(value)
ExpiredOf(results, nowMs) ==
    IF results = <<>> THEN <<>>
    ELSE (IF IsExpired(Head(results), nowMs) THEN <<Head(results)>> ELSE <<>>)
         \o ExpiredOf(Tail(results), nowMs)

ScanInit ==
    /\ now = StartMs
    /\ store \in [ScanKeys -> UNION {ScanRecords(k) : k \in ScanKeys} \cup {NoRecord}]
    /\ \A k \in ScanKeys : store[k].exists => store[k].jobId = k
    /\ run = [p \in Slots |-> Idle]
    /\ created = {k \in ScanKeys : store[k].exists}
    /\ applied = [j \in Jobs |-> [w \in WebhookIds |-> 0]]
    /\ notified = [j \in Jobs |-> [w \in WebhookIds |-> 0]]
    /\ lastCancel = [j \in Jobs |-> NoCancel]
    /\ started = 0
    /\ probe = NoProbe

\* the scheduled trigger invokes the cleanup: const expired = []; let cursor
ScanBegin(p) ==
    /\ Begin(p)
    /\ run' = [run EXCEPT ![p] = [Idle EXCEPT !.kind = "sweep", !.pc = "scan"]]
    /\ UNCHANGED <<now, store, created, applied, notified, lastCancel, probe>>

\* Fault injected to test the properties: a scan that reads the first page
\* and ignores the cursor.
ScanPage_FirstPageOnly(p) ==
    /\ NoneDone
    /\ run[p].kind = "sweep" /\ run[p].pc = "scan"
    /\ \E size \in 1..PageMax, more \in BOOLEAN :
          LET response == GetMany(store, run[p].cursor, size, more)
              expired == run[p].expired \o ExpiredOf(response.results, now)
              r == [run[p] EXCEPT !.expired = expired, !.gets = @ + 1,
                                  !.cursor = NoCursor]
          IN  run' = [run EXCEPT ![p] =
                  IF expired = <<>> THEN Finish(p, r, Pruned(0))
                  ELSE [r EXCEPT !.pc = "sweep_delete"]]
    /\ UNCHANGED <<now, store, created, applied, notified, lastCancel, started, probe>>

\* one turn of the do-while loop of listExpiredJobs: a page is fetched, its
\* expired values are pushed, cursor = response?.nextCursor; without a
\* cursor the list goes back to the cleanup, which answers when it is empty
ScanPage(p) ==
    /\ NoneDone
    /\ run[p].kind = "sweep" /\ run[p].pc = "scan"
    /\ \E size \in 1..PageMax, more \in BOOLEAN :
          LET response == GetMany(store, run[p].cursor, size,
                                  more /\ run[p].gets < ScanLen)
              expired == run[p].expired \o ExpiredOf(response.results, now)
              r == [run[p] EXCEPT !.expired = expired, !.gets = @ + 1,
                                  !.cursor = response.nextCursor]
          IN  run' = [run EXCEPT ![p] =
                  IF response.nextCursor # NoCursor THEN r
                  ELSE IF expired = <<>> THEN Finish(p, r, Pruned(0))
                  ELSE [r EXCEPT !.pc = "sweep_delete"]]
    /\ UNCHANGED <<now, store, created, applied, notified, lastCancel, started, probe>>

ScanNext ==
    \/ Quiet /\ Tick
    \/ Quiet /\ \E p \in Slots : ScanBegin(p)
    \/ \E p \in Slots : ScanPage(p)
    \/ \E p \in Slots : SweepDelete(p)
    \/ \E p \in Slots : Return(p)

ScanSpec == ScanInit /\ [][ScanNext]_vars

(***************************************************************************)
(* Usage limits: src/services/rateLimiter.js and the provider calls it     *)
(* gates.  The usage records live in the same storage as the job records,  *)
(* under the keys usage_daily_<day> and usage_hourly_<hour>.  Cost is       *)
(* counted in millionths of a dollar.                                      *)
(***************************************************************************)
MaxHourTicks == 1  \* clock advances of one hour, within one day
MILLIS_PER_HOUR == 3600000

dailyLimit == 1000
hourlyLimit == 100
costLimit == 10000000

CallTypes == {"embeddings", "completions"}

\* the estimate of a call's cost, in millionths of a dollar
EstimatedCost(type) == IF type = "embeddings" THEN 1 ELSE 25

\* new Date().toISOString().split('T')[0]
getDateKey(nowMs) == "usage_daily_" \o ToString(nowMs \div MILLIS_PER_DAY)

\* the date and now.getUTCHours()
getHourKey(nowMs) == "usage_hourly_" \o ToString(nowMs \div MILLIS_PER_HOUR)

ClockReadings == {StartMs + i * MILLIS_PER_HOUR : i \in 0..MaxHourTicks}
UsageKeys == {getDateKey(t) : t \in ClockReadings} \cup {getHourKey(t) : t \in ClockReadings}

\* storage.get(key) of a key never written
NoUsage == [exists |-> FALSE, calls |-> 0, cost |-> 0, embeddings |-> 0, completions |-> 0]

\* storage.get(`usage_daily_${today}`) || { calls: 0, cost: 0, embeddings: 0, completions: 0 }
DailyOr(value) == IF value.exists THEN value ELSE [NoUsage EXCEPT !.exists = TRUE]

\* storage.get(`usage_hourly_${hour}`) || { calls: 0 }; an hourly record has
\* no other field than calls
HourlyOr(value) == IF value.exists THEN value ELSE [NoUsage EXCEPT !.exists = TRUE]

\* the usage recorded by calls made one after another before the behaviour
\* begins: so many completions today, so many of them in this hour
PriorUsage(today, thisHour, spent) ==
    [k \in UsageKeys |->
        IF k = getDateKey(StartMs) /\ today > 0
        THEN [exists |-> TRUE, calls |-> today, cost |-> spent,
              embeddings |-> 0, completions |-> today]
        ELSE IF k = getHourKey(StartMs) /\ thisHour > 0
        THEN [NoUsage EXCEPT !.exists = TRUE, !.calls = thisHour]
        ELSE NoUsage]

NoCall ==
    [kind |-> "idle", pc |-> "idle", type |-> "", cost |-> 0, today |-> "", hour |-> "",
     dailyUsage |-> NoUsage, hourlyUsage |-> NoUsage, tracked |-> FALSE, error |-> ""]

LimiterInit ==
    /\ now = StartMs
    /\ \E today \in {0, hourlyLimit - 1, hourlyLimit, dailyLimit - 1, dailyLimit},
          thisHour \in {0, hourlyLimit - 1, hourlyLimit},
          spent \in {0, 1} :
          /\ thisHour <= today
          /\ spent = 1 => today > 0
          /\ store = PriorUsage(today, thisHour,
                                IF spent = 1 THEN costLimit ELSE today * EstimatedCost("completions"))
    /\ run = [p \in Slots |-> NoCall]
    /\ created = {}
    /\ applied = [j \in Jobs |-> [w \in WebhookIds |-> 0]]
    /\ notified = [j \in Jobs |-> [w \in WebhookIds |-> 0]]
    /\ lastCancel = [j \in Jobs |-> NoCancel]
    /\ started = 0
    /\ probe = [prior |-> store]

\* the clock passes into the next hour of the same day
HourTick ==
    /\ now + MILLIS_PER_HOUR <= StartMs + MaxHourTicks * MILLIS_PER_HOUR
    /\ now' = now + MILLIS_PER_HOUR
    /\ UNCHANGED <<store, run, created, applied, notified, lastCancel, started, probe>>

\* createEmbedding or createCompletion is called: await
\* rateLimiter.canMakeRequest(), whose getUsage reads the two keys
CallBegin(p, type) ==
    /\ Free(p)
    /\ \A q \in Slots : q < p => ~Free(q)
    /\ started' = started + 1
    /\ run' = [run EXCEPT ![p] =
          [NoCall EXCEPT !.kind = "call", !.pc = "gate_daily", !.type = type,
                         !.cost = EstimatedCost(type),
                         !.today = getDateKey(now), !.hour = getHourKey(now)]]
    /\ UNCHANGED <<now, store, created, applied, notified, lastCancel, probe>>

\* getUsage: const dailyUsage = await storage.get(`usage_daily_${today}`) || {...}
GateDaily(p) ==
    /\ run[p].kind = "call" /\ run[p].pc = "gate_daily"
    /\ run' = [run EXCEPT ![p] =
          [@ EXCEPT !.pc = "gate_hourly", !.dailyUsage = DailyOr(store[run[p].today])]]
    /\ UNCHANGED <<now, store, created, applied, notified, lastCancel, started, probe>>

\* the three checks of canMakeRequest on what getUsage returned
canMakeRequest(dailyUsage, hourlyUsage) ==
    IF dailyUsage.calls >= dailyLimit
    THEN "Daily API call limit reached. Please try again tomorrow."
    ELSE IF hourlyUsage.calls >= hourlyLimit
    THEN "Hourly API call limit reached. Please try again in an hour."
    ELSE IF dailyUsage.cost >= costLimit
    THEN "Daily cost limit reached. Please try again tomorrow."
    ELSE ""

\* getUsage: const hourlyUsage = await storage.get(`usage_hourly_${hour}`) || {...},
\* then canMakeRequest throws or returns true
GateHourly(p) ==
    /\ run[p].kind = "call" /\ run[p].pc = "gate_hourly"
    /\ LET hourlyUsage == HourlyOr(store[run[p].hour])
           error == canMakeRequest(run[p].dailyUsage, hourlyUsage)
       IN  run' = [run EXCEPT ![p] =
               IF error # ""
               THEN [@ EXCEPT !.pc = "done", !.hourlyUsage = hourlyUsage, !.error = error]
               ELSE [@ EXCEPT !.pc = "fetch", !.hourlyUsage = hourlyUsage]]
    /\ UNCHANGED <<now, store, created, applied, notified, lastCancel, started, probe>>

\* const response = await fetch(...): an answer that is not ok throws; after
\* an ok answer trackCall begins and takes its two keys from the clock
Fetch(p) ==
    /\ run[p].kind = "call" /\ run[p].pc = "fetch"
    /\ \E ok \in BOOLEAN :
          run' = [run EXCEPT ![p] =
              IF ~ok THEN [@ EXCEPT !.pc = "done", !.error = "OpenAI API error"]
              ELSE [@ EXCEPT !.pc = "track_daily_get",
                             !.today = getDateKey(now), !.hour = getHourKey(now)]]
    /\ UNCHANGED <<now, store, created, applied, notified, lastCancel, started, probe>>

\* trackCall: const dailyUsage = await storage.get(...) || {...}; calls += 1;
\* cost += cost; dailyUsage[type] += 1
TrackDailyGet(p) ==
    /\ run[p].kind = "call" /\ run[p].pc = "track_daily_get"
    /\ LET dailyUsage == DailyOr(store[run[p].today])
       IN  run' = [run EXCEPT ![p] =
               [@ EXCEPT !.pc = "track_daily_set",
                         !.dailyUsage =
                             [dailyUsage EXCEPT !.calls = @ + 1, !.cost = @ + run[p].cost,
                                                ![run[p].type] = @ + 1]]]
    /\ UNCHANGED <<now, store, created, applied, notified, lastCancel, started, probe>>

\* await storage.set(`usage_daily_${today}`, dailyUsage)
TrackDailySet(p) ==
    /\ run[p].kind = "call" /\ run[p].pc = "track_daily_set"
    /\ store' = [store EXCEPT ![run[p].today] = run[p].dailyUsage]
    /\ run' = [run EXCEPT ![p] = [@ EXCEPT !.pc = "track_hourly_get"]]
    /\ UNCHANGED <<now, created, applied, notified, lastCancel, started, probe>>

\* const hourlyUsage = await storage.get(...) || { calls: 0 }; calls += 1
TrackHourlyGet(p) ==
    /\ run[p].kind = "call" /\ run[p].pc = "track_hourly_get"
    /\ LET hourlyUsage == HourlyOr(store[run[p].hour])
       IN  run' = [run EXCEPT ![p] =
               [@ EXCEPT !.pc = "track_hourly_set",
                         !.hourlyUsage = [hourlyUsage EXCEPT !.calls = @ + 1]]]
    /\ UNCHANGED <<now, store, created, applied, notified, lastCancel, started, probe>>

\* await storage.set(`usage_hourly_${hour}`, hourlyUsage); return dailyUsage
TrackHourlySet(p) ==
    /\ run[p].kind = "call" /\ run[p].pc = "track_hourly_set"
    /\ store' = [store EXCEPT ![run[p].hour] = run[p].hourlyUsage]
    /\ run' = [run EXCEPT ![p] = [@ EXCEPT !.pc = "done", !.tracked = TRUE]]
    /\ UNCHANGED <<now, created, applied, notified, lastCancel, started, probe>>

\* Provider calls of concurrent invocations, interleaved at every await.
LimiterNext ==
    \/ HourTick
    \/ \E p \in Slots, type \in CallTypes : CallBegin(p, type)
    \/ \E p \in Slots : GateDaily(p)
    \/ \E p \in Slots : GateHourly(p)
    \/ \E p \in Slots : Fetch(p)
    \/ \E p \in Slots : TrackDailyGet(p)
    \/ \E p \in Slots : TrackDailySet(p)
    \/ \E p \in Slots : TrackHourlyGet(p)
    \/ \E p \in Slots : TrackHourlySet(p)

LimiterSpec == LimiterInit /\ [][LimiterNext]_vars

(***************************************************************************)
(* Properties: terminal states, replay, cancellation, the ledger           *)
(***************************************************************************)
\* the three terminal statuses, as the specification lists them
Settled(record) == record.exists /\ record.status \in {COMPLETED, FAILED, CANCELLED}

\* C1: once a stored record's status is COMPLETED, FAILED or CANCELLED, no
\* step changes its status, its result or its error.
C1_TerminalStatesAreFinal ==
    [][\A j \in Jobs :
          Settled(store[j]) =>
              /\ store'[j].status = store[j].status
              /\ store'[j].result = store[j].result
              /\ store'[j].error = store[j].error]_vars

Occurrences(list, x) == Cardinality({i \in 1..Len(list) : list[i] = x})

\* C2: a dispatcher run that arrives with a delivery id some earlier run has
\* already persisted for the same job retrieves nothing, writes nothing,
\* publishes nothing, answers 200, and the ledger holds the id once.
C2_SequentialReplayIsNoOp ==
    \A p \in Slots :
        run[p].kind = "webhook" /\ run[p].replay =>
            /\ run[p].pc \in {"get", "done"}
            /\ run[p].retrieves = 0
            /\ run[p].sets = 0
            /\ run[p].published = <<>>
            /\ run[p].pc = "done" => run[p].response.code = 200
            /\ Occurrences(store[run[p].job].processedWebhookIds, run[p].webhookId) = 1

\* a replayed delivery has been answered as a duplicate
C2_Witness ==
    \E p \in Slots :
        /\ run[p].kind = "webhook" /\ run[p].replay /\ run[p].pc = "done"
        /\ run[p].response = HttpResponse(200, "Ack: duplicate")
        /\ store[run[p].job].status = COMPLETED

\* C3: for every job and delivery id, dispatcher runs carrying that id write
\* the store at most once and publish at most one notification.
C3_ConcurrentDeliveryAppliedOnce ==
    \A j \in Jobs, w \in WebhookIds : applied[j][w] <= 1 /\ notified[j][w] <= 1

\* C4: a cancel request that reads a settled record ends at once: no
\* provider call, no store write, no notification, success with the message
\* that names the settled status.
C4_CancelOfSettledJobHasNoEffect ==
    \A p \in Slots :
        run[p].kind = "cancel" /\ Settled(run[p].tracked) =>
            /\ run[p].pc = "done"
            /\ run[p].cancels = 0
            /\ run[p].sets = 0
            /\ run[p].published = <<>>
            /\ run[p].response.success
            /\ run[p].response.message =
                   "Job already settled with status " \o run[p].tracked.status \o "."

\* a cancel request has found the job completed
C4_Witness ==
    \E p \in Slots :
        /\ run[p].kind = "cancel" /\ run[p].pc = "done"
        /\ run[p].tracked.exists /\ run[p].tracked.status = COMPLETED
        /\ run[p].tracked.result.v = "value"

\* C5: a cancel request that finds the store as an earlier cancel left it
\* calls the provider no further time, leaves the store as it was, and
\* returns the record the earlier cancel returned.
C5_SecondCancelReturnsTheSame ==
    \A p \in Slots :
        run[p].kind = "cancel" /\ run[p].pc = "done" /\ run[p].previous.valid =>
            /\ run[p].cancels = 0
            /\ store[run[p].job] = run[p].previous.stored
            /\ run[p].response.job = run[p].previous.response.job

\* the store write of a cancel request: the step of updateJobRecord's set
CancelWrites(p) ==
    run[p].kind = "cancel" /\ run[p].pc = "update_set" /\ run'[p].pc = "publish"

\* a terminal status the dispatcher wrote: cancel alone writes this reason
SettledByDispatcher(record) ==
    Settled(record) /\ record.error.reason # "cancelled_by_user"

\* C6 as stated: no cancel request writes the store while it holds a
\* terminal status written by the dispatcher.
C6_CancelNeverOverwritesSettled ==
    [][\A p \in Slots :
          CancelWrites(p) => ~SettledByDispatcher(store[run[p].job])]_vars

\* C6: a cancel request that writes over a terminal status written by the
\* dispatcher had read the record before it was settled; one that reads a
\* settled record never writes.
C6_CancelOverwritesOnlyWhatSettledAfterItsRead ==
    [][\A p \in Slots :
          CancelWrites(p) /\ SettledByDispatcher(store[run[p].job]) =>
              ~Settled(run[p].tracked)]_vars

\* a cancel request has replaced a completion the dispatcher had stored
C6_Witness ==
    \E p \in Slots :
        /\ run[p].kind = "cancel" /\ run[p].pc = "publish"
        /\ store[run[p].job] = run[p].merged
        /\ store[run[p].job].status = CANCELLED
        /\ store[run[p].job].processedWebhookIds # <<>>

\* C7: no record that a status query or a cancel request returns carries
\* the processedWebhookIds field.
C7_LedgerNeverReturned ==
    \A p \in Slots :
        run[p].kind \in {"status", "cancel"} /\ run[p].pc = "done"
        /\ run[p].response.success =>
            ~run[p].response.job.hasLedger

(***************************************************************************)
(* Properties: the verifier and rejected callbacks                         *)
(***************************************************************************)
\* the callback got through the dispatcher's verification and parsing
Accepted(r) == r.kind = "webhook" /\ r.rejection = ""

\* the signature was verified: the dispatcher went on, or stopped at a body
\* that is not JSON
Verified(r) ==
    r.kind = "webhook" /\ r.rejection \in {"", "Invalid webhook payload."}

\* What the specification asks of a callback: one of its candidates is the
\* digest of its scheme over the body presented, and its timestamp is within
\* the tolerance of the clock.
Expected(sent, rawBody, secret, nowMs) ==
    /\ sent.scheme # "none"
    /\ sent.timestampForm = "decimal"
    /\ \E i \in 1..Len(sent.candidates) :
           sent.candidates[i] =
               SchemeDigest(sent.scheme, sent.id, sent.timestamp, rawBody, secret)
    /\ Abs(NowSeconds(nowMs) - sent.timestamp) <= SIGNATURE_TOLERANCE_SECONDS

\* C8: a callback that carries the headers of one scheme is verified if and
\* only if one of its candidates is the scheme's digest over the presented
\* body and its timestamp is at most 300 seconds from the clock.
C8_VerifiedIffDigestMatchesAndFresh ==
    probe.sent.scheme # "none" =>
        /\ probe.stage >= 1 =>
               (Verified(probe.tamperedRun)
                   <=> Expected(probe.sent, probe.tampered, WebhookSecret, now))
        /\ probe.stage = 2 =>
               (Verified(probe.originalRun)
                   <=> Expected(probe.sent, probe.body, WebhookSecret, now))

\* C9: when a callback is accepted with the body its sender signed, the same
\* headers with any other body are answered 400 before the store is read.
C9_TamperedBodyIsRejected ==
    probe.stage = 2 /\ Accepted(probe.originalRun) =>
        /\ ~Verified(probe.tamperedRun)
        /\ probe.tamperedRun.pc = "done"
        /\ probe.tamperedRun.response.code = 400
        /\ probe.tamperedRun.gets = 0
        /\ probe.tamperedRun.sets = 0

\* a broker-style callback was accepted as sent and rejected as tampered
C9_Witness ==
    /\ probe.stage = 2
    /\ probe.sent.scheme = "svix"
    /\ Accepted(probe.originalRun)
    /\ probe.tamperedRun.response.code = 400
    /\ probe.tampered.json

\* C10: a dispatcher run whose callback fails verification or parsing ends
\* at once with 400: no store read, no store write, no retrieval, no
\* notification.
C10_RejectedCallbackLeavesNoTrace ==
    \A p \in Slots :
        run[p].kind = "webhook"
        /\ run[p].rejection \notin {"", "OPENAI_WEBHOOK_SECRET not configured"} =>
            /\ run[p].pc = "done"
            /\ run[p].response.code = 400
            /\ run[p].gets = 0
            /\ run[p].sets = 0
            /\ run[p].deletes = 0
            /\ run[p].retrieves = 0
            /\ run[p].published = <<>>
            /\ store = [j \in Jobs |-> NewJobRecord(j, "analysis", QUEUED,
                                                    DEFAULT_RETENTION_DAYS, StartMs,
                                                    StartMs)]

\* a callback with a genuine signature over a body that is not JSON was
\* rejected
C10_Witness ==
    \E p \in Slots :
        /\ run[p].kind = "webhook" /\ run[p].pc = "done"
        /\ run[p].rejection = "Invalid webhook payload."
        /\ run[p].response.code = 400

(***************************************************************************)
(* Properties: the dispatcher's answers and paths                          *)
(***************************************************************************)
\* C11: a dispatcher run for which no webhook secret is configured in the
\* invocation context, the process environment or secret storage ends at
\* once with 401: the verifier is not called, the store is neither read nor
\* written, the provider is not contacted, nothing is published.
C11_NoSecretAnswers401 ==
    \A p \in Slots :
        run[p].kind = "webhook" /\ ~run[p].configured =>
            /\ run[p].pc = "done"
            /\ run[p].response = HttpResponse(401, "Webhook secret not configured")
            /\ run[p].unwraps = 0
            /\ run[p].gets = 0
            /\ run[p].sets = 0
            /\ run[p].retrieves = 0
            /\ run[p].cancels = 0
            /\ run[p].published = <<>>

\* a dispatcher run without a configured secret has answered, while a job
\* is tracked
C11_Witness ==
    \E p \in Slots :
        /\ run[p].kind = "webhook" /\ ~run[p].configured
        /\ run[p].response.code = 401
        /\ \E j \in Jobs : store[j].exists

\* C12: a dispatcher run whose callback was verified and parsed answers 200
\* whatever the retrieved artifact holds, and when the artifact is completed
\* but its text cannot be shaped into the job type's result, the failure is
\* stored on the job.
C12_AuthenticatedCallbackAcknowledged ==
    \A p \in Slots :
        run[p].kind = "webhook" /\ run[p].pc = "done"
        /\ run[p].unwraps = 1 /\ run[p].rejection = "" =>
            /\ run[p].response.code = 200
            /\ (/\ run[p].retrieves = 1 /\ ~run[p].threw
                /\ run[p].retrieved.status = COMPLETED
                /\ run[p].retrieved.output = "unshaped")
               => /\ run[p].sets = 1
                  /\ store[run[p].job].status = FAILED

\* the dispatcher run in slot p has returned after one retrieval that
\* brought back an artifact
Retrieved(p) ==
    /\ run[p].kind = "webhook" /\ run[p].pc = "done"
    /\ run[p].retrieves = 1 /\ ~run[p].threw

\* the artifact holds an output_text block with text in it
HasExtractableText(artifact) == artifact.output \in {"good", "unshaped"}

\* C13: when a dispatcher run has retrieved a completed artifact with
\* extractable output text and has returned, the stored job is COMPLETED, its
\* result.rawText is the extracted text, its error is null, the delivery id is
\* in the ledger, and the run has published job-<jobType>-completed once and
\* nothing else.
C13_CompletionIsApplied ==
    \A p \in Slots :
        Retrieved(p) /\ run[p].retrieved.status = COMPLETED
        /\ HasExtractableText(run[p].retrieved) =>
            LET stored == store[run[p].job]
            IN  /\ stored.status = COMPLETED
                /\ stored.result.v = "value"
                /\ stored.result.rawText = extractResponseText(run[p].retrieved)
                /\ stored.error = NullError
                /\ run[p].webhookId # "" =>
                       Includes(stored.processedWebhookIds, run[p].webhookId)
                /\ run[p].published =
                       <<IF stored.jobType = "analysis" THEN "job-analysis-completed"
                         ELSE "job-response-completed">>
                /\ run[p].response.code = 200

\* C14: when the retrieval of a dispatcher run has failed and the run has
\* returned, the stored job is FAILED with error.reason retrieve_failed, the
\* delivery id is in the ledger, the run has published job-<jobType>-failed
\* once and nothing else, it has answered 200, and it has called the
\* provider once only.
C14_RetrieveFailureIsRecorded ==
    \A p \in Slots :
        run[p].kind = "webhook" /\ run[p].pc = "done" /\ run[p].threw =>
            LET stored == store[run[p].job]
            IN  /\ stored.status = FAILED
                /\ stored.error.v = "value"
                /\ stored.error.reason = "retrieve_failed"
                /\ run[p].webhookId # "" =>
                       Includes(stored.processedWebhookIds, run[p].webhookId)
                /\ run[p].published =
                       <<IF stored.jobType = "analysis" THEN "job-analysis-failed"
                         ELSE "job-response-failed">>
                /\ run[p].response.code = 200
                /\ run[p].retrieves = 1

\* a run whose retrieval failed has returned, for a delivery that carries an id
C14_Witness ==
    \E p \in Slots :
        /\ run[p].kind = "webhook" /\ run[p].pc = "done" /\ run[p].threw
        /\ run[p].webhookId # ""
        /\ store[run[p].job].status = FAILED
        /\ store[run[p].job].jobType = "response"

\* C15: when a dispatcher run has retrieved an artifact that is not a
\* completed one with extractable output text (a completed artifact without an
\* output_text block included) and has returned, the stored job is CANCELLED
\* if the artifact says cancelled and FAILED otherwise, its error is not null,
\* the delivery id is in the ledger, and the run has published one
\* job-<jobType>-cancelled or job-<jobType>-failed event and nothing else.
C15_NonSuccessArtifactIsRecorded ==
    \A p \in Slots :
        Retrieved(p)
        /\ ~(run[p].retrieved.status = COMPLETED /\ HasExtractableText(run[p].retrieved)) =>
            LET stored == store[run[p].job]
                cancelled == run[p].retrieved.status = CANCELLED
                prefix == IF stored.jobType = "analysis" THEN "job-analysis-"
                          ELSE "job-response-"
            IN  /\ stored.status = IF cancelled THEN CANCELLED ELSE FAILED
                /\ stored.error.v = "value"
                /\ run[p].webhookId # "" =>
                       Includes(stored.processedWebhookIds, run[p].webhookId)
                /\ run[p].published =
                       <<prefix \o (IF cancelled THEN "cancelled" ELSE "failed")>>

\* C16: a dispatcher run whose verified callback names no job, or names a
\* job the store holds no record of, ends with 200 without a store write, a
\* retrieval or a notification; without a job id the store is not read
\* either.
C16_EventWithoutJobIsBenign ==
    \A p \in Slots :
        run[p].kind = "webhook" /\ run[p].unwraps = 1 /\ run[p].rejection = ""
        /\ (run[p].job = "" \/ (run[p].gets >= 1 /\ ~run[p].tracked.exists)) =>
            /\ run[p].pc = "done"
            /\ run[p].response.code = 200
            /\ run[p].job = "" => run[p].gets = 0
            /\ run[p].gets <= 1
            /\ run[p].sets = 0
            /\ run[p].retrieves = 0
            /\ run[p].published = <<>>

\* a callback for a job that was created and has been pruned was acknowledged
C16_Witness ==
    \E p \in Slots :
        /\ run[p].kind = "webhook" /\ run[p].pc = "done"
        /\ run[p].job \in created
        /\ run[p].gets = 1 /\ ~run[p].tracked.exists
        /\ run[p].response.code = 200
        /\ ~store[run[p].job].exists

(***************************************************************************)
(* Properties: the stored record, retention, status query                  *)
(***************************************************************************)
\* result is present only on a COMPLETED record, error only on a FAILED or
\* CANCELLED one
PresenceHolds(record) ==
    /\ record.result.v = "value" => record.status = COMPLETED
    /\ record.error.v = "value" => record.status \in {FAILED, CANCELLED}

\* C17: in every reachable state every stored record has a non-null result
\* only if its status is COMPLETED and a non-null error only if its status is
\* FAILED or CANCELLED.
C17_ResultAndErrorMatchStatus ==
    \A j \in Jobs : store[j].exists => PresenceHolds(store[j])

\* the retention, in days, a job of this type was submitted with
RetentionOf(jobType) == (CHOOSE s \in Submissions : s.jobType = jobType).retentionDays

\* the record was created at least its retention ago, and says so itself
ReclaimableAt(record, nowMs) ==
    /\ record.expiresAt # NoTime
    /\ record.expiresAt <= nowMs
    /\ record.createdAt + RetentionOf(record.jobType) * MILLIS_PER_DAY <= nowMs

\* C18: a sweep lists only records created at least their retentionDays ago;
\* a record leaves the store only by a sweep deleting the job at the head of
\* its list, and the record it listed for that job had expired.
C18_NoPrematureReclamation ==
    [][/\ \A p \in Slots :
              run[p].kind = "idle" /\ run'[p].kind = "sweep" =>
                  \A i \in 1..Len(run'[p].expired) :
                      /\ run'[p].expired[i] = store[run'[p].expired[i].jobId]
                      /\ ReclaimableAt(run'[p].expired[i], now)
       /\ \A j \in Jobs :
              store[j].exists /\ ~store'[j].exists =>
                  \E p \in Slots :
                      /\ run[p].kind = "sweep" /\ run[p].pc = "sweep_delete"
                      /\ Head(run[p].expired).jobId = j
                      /\ ReclaimableAt(Head(run[p].expired), now)
                      /\ run'[p].deletes = run[p].deletes + 1]_vars

\* a sweep has deleted the one-day job a day after its creation, and
\* answered with its count
C18_Witness ==
    \E p \in Slots :
        /\ run[p].kind = "sweep" /\ run[p].pc = "done"
        /\ run[p].deletes = 1 /\ run[p].response.pruned = 1
        /\ "J1" \in created /\ ~store["J1"].exists
        /\ now = StartMs + MILLIS_PER_DAY

\* C19: a sweep run that has ended has attempted the deletion of every job
\* it listed, also when one of the deletions failed, has not failed as a
\* whole, and reports the number of records it deleted.
C19_SweepToleratesDeletionFailure ==
    \A p \in Slots :
        run[p].kind = "sweep" /\ run[p].pc = "done" =>
            /\ run[p].expired = <<>>
            /\ run[p].response.success
            /\ run[p].response.pruned = run[p].deletes

\* C20: a status query, whether its job id is tracked, untracked or missing,
\* leaves the store as it was, calls neither the provider nor the event bus,
\* and answers "not found" exactly when the store holds no record of the id
\* (a request without an id is refused); otherwise it answers with the
\* stored record.
C20_StatusQueryIsReadOnly ==
    [][\A p \in Slots :
           run[p].kind = "idle" /\ run'[p].kind = "status" =>
               LET r == run'[p]
                   notFound ==
                       r.response.message
                           = "No background job found for id " \o r.job \o "."
               IN  /\ store' = store
                   /\ applied' = applied /\ notified' = notified
                   /\ r.pc = "done"
                   /\ r.sets = 0 /\ r.deletes = 0
                   /\ r.retrieves = 0 /\ r.cancels = 0
                   /\ r.published = <<>>
                   /\ r.job # "" => (~r.response.success /\ notFound <=> ~store[r.job].exists)
                   /\ r.job # "" /\ store[r.job].exists =>
                          /\ r.response.success
                          /\ r.response.job = Sanitise(store[r.job])
                   /\ r.job = "" => ~r.response.success /\ ~notFound]_vars

\* a status query has answered with a settled record, another with not found
C20_Witness ==
    /\ \E p \in Slots :
           /\ run[p].kind = "status" /\ run[p].pc = "done"
           /\ run[p].response.success
           /\ run[p].response.job.status = COMPLETED
    /\ \E j \in Jobs : store[j].exists /\ store[j].status = COMPLETED

\* C21: while a record stays in the store, no update of the dispatcher or
\* of cancel changes its expiresAt or its jobType.
C21_ExpiryAndTypeAreWriteOnce ==
    [][\A j \in Jobs :
           store[j].exists /\ store'[j].exists =>
               /\ store'[j].expiresAt = store[j].expiresAt
               /\ store'[j].jobType = store[j].jobType]_vars

\* a record created a day ago has been settled by the dispatcher since and
\* still carries the expiry of its creation
C21_Witness ==
    \E j \in Jobs :
        /\ store[j].exists /\ store[j].status = COMPLETED
        /\ store[j].createdAt = StartMs
        /\ store[j].updatedAt = StartMs + MILLIS_PER_DAY
        /\ store[j].expiresAt = StartMs + 1 + DEFAULT_RETENTION_DAYS * MILLIS_PER_DAY
        /\ store[j].jobType = "response"


(***************************************************************************)
(* Properties: the contracts of create and update                          *)
(***************************************************************************)
\* C22: the record create persists has an empty ledger, result null, error
\* null, the status supplied, updatedAt equal to createdAt, and expiresAt
\* exactly createdAt plus the retention days of the call, however the clock
\* moves during the call.
C22_CreateContract ==
    [][\A j \in Jobs :
           j \notin created /\ j \in created' =>
               LET record == store'[j]
               IN  /\ record.exists /\ record.jobId = j
                   /\ record.hasLedger /\ record.processedWebhookIds = <<>>
                   /\ record.result = NullResult /\ record.error = NullError
                   /\ \E s \in Submissions :
                          s.jobType = record.jobType /\ s.status = record.status
                   /\ record.updatedAt = record.createdAt
                   /\ record.expiresAt =
                          record.createdAt
                              + RetentionOf(record.jobType) * MILLIS_PER_DAY]_vars


\* C23: an update of an existing record keeps the fields the partial does
\* not name and the status when the partial has none, replaces result and
\* error when they are supplied (null included), merges auxiliaryData key by
\* key, never moves updatedAt backwards, and returns the record it stored.
C23_UpdateContract ==
    [][\A p \in Slots :
           run[p].kind = "update" =>
               LET j == run[p].job
                   u == run[p].updates
                   old == store[j]
                   new == store'[j]
               IN  /\ run[p].pc = "update_set" /\ run'[p].pc = "publish" /\ old.exists =>
                         /\ new.exists /\ new.jobId = old.jobId
                         /\ new.jobType = old.jobType
                         /\ new.createdAt = old.createdAt
                         /\ new.expiresAt = old.expiresAt
                         /\ new.hasLedger = old.hasLedger
                         /\ new.processedWebhookIds = old.processedWebhookIds
                         /\ new.status = IF u.status = Undefined THEN old.status
                                         ELSE u.status
                         /\ new.result = IF u.result = UndefinedResult THEN old.result
                                         ELSE u.result
                         /\ new.error = IF u.error = UndefinedError THEN old.error
                                        ELSE u.error
                         /\ \A k \in AuxKeys :
                                new.auxiliaryData[k] =
                                    IF u.auxGiven /\ u.auxiliaryData[k] # "absent"
                                    THEN u.auxiliaryData[k]
                                    ELSE old.auxiliaryData[k]
                         /\ new.updatedAt >= old.updatedAt
                   /\ run[p].pc = "publish" /\ run'[p].pc = "done" =>
                         /\ run'[p].response.success
                         /\ run'[p].response.job = store'[j]]_vars

\* an update without status that supplies a null result and one key of
\* auxiliaryData has returned: the stored record keeps its status and its
\* other key, its result is null, and updatedAt is a day later
C23_Witness ==
    \E p \in Slots :
        /\ run[p].kind = "update" /\ run[p].pc = "done"
        /\ run[p].updates.status = Undefined
        /\ run[p].updates.result = NullResult
        /\ run[p].updates.error = UndefinedError
        /\ run[p].updates.auxGiven
        /\ run[p].updates.auxiliaryData = [NoAux EXCEPT !["agentName"] = "changed"]
        /\ LET record == store[run[p].job]
           IN  /\ record.status = COMPLETED
               /\ record.result = NullResult
               /\ record.error = Error("retrieve_failed", Undefined)
               /\ record.auxiliaryData["caseStatus"] = "new"
               /\ record.auxiliaryData["agentName"] = "changed"
               /\ record.updatedAt = StartMs + MILLIS_PER_DAY
               /\ run[p].response.job = record


(***************************************************************************)
(* Properties: failures of the provider and of the notification            *)
(***************************************************************************)
\* C24: when cancel is asked for a tracked job that is not settled and the
\* provider's cancellation call fails, the job is stored as FAILED with a
\* reason code, and the call is made once.
C24_CancelFailureIsRecorded ==
    \A p \in Slots :
        /\ run[p].kind = "cancel" /\ run[p].pc = "done"
        /\ run[p].threw
        /\ run[p].tracked.exists /\ run[p].tracked.status \notin FINAL_STATUSES
        => /\ run[p].cancels = 1
           /\ store[run[p].job].status = FAILED
           /\ store[run[p].job].error.v = "value"
           /\ store[run[p].job].error.reason # Undefined


\* C25: when the publication of a notification fails, by throwing or by an
\* error result, the dispatcher still answers 200, cancel still answers
\* success, and the store is as it was before the attempt.
C25_PublishFailureIsAbsorbed ==
    [][\A p \in Slots :
           /\ run[p].pc = "publish" /\ run'[p].pc = "done"
           /\ run'[p].publishResult \in {"error", "null", "throws"}
           => /\ store' = store
              /\ run[p].kind = "webhook" => run'[p].response.code = 200
              /\ run[p].kind = "cancel" =>
                    /\ run'[p].response.success
                    /\ run'[p].response.job = Sanitise(store'[run[p].job])]_vars

\* appEvents.publish threw for the notification of a completed job, and the
\* dispatcher answered 200 with the job stored as completed
C25_Witness ==
    \E p \in Slots :
        /\ run[p].kind = "webhook" /\ run[p].pc = "done"
        /\ run[p].publishResult = "null"
        /\ Len(run[p].published) = 1
        /\ run[p].response.code = 200
        /\ store[run[p].job].status = COMPLETED


(***************************************************************************)
(* Properties: the schemes of the verifier                                 *)
(***************************************************************************)
\* C27: a broker-style callback in the documented format, with svix-id, a
\* svix-timestamp at most 300 seconds from the clock and a svix-signature
\* of the form v1,<base64 digest> (one or several versions) that holds the
\* digest of id.timestamp.body under the decoded secret, passes verification.
C27_DocumentedSvixFormatIsAccepted ==
    /\ probe.stage = 2
    /\ probe.sent.scheme = "svix" /\ probe.sent.layout = "comma"
    /\ Expected(probe.sent, probe.body, WebhookSecret, now)
    => Verified(probe.originalRun)


\* the headers this sender wrote, put to the verifier on their own with the
\* body, pass parsing, recency and signature comparison
VerifiesAlone(sent, rawBody, secret, nowMs) ==
    LET Passed(unwrapped) ==
            unwrapped.ok \/ unwrapped.error = "Invalid webhook payload."
    IN  Passed(unwrapWebhookEvent(rawBody, SentHeaders(sent), secret, nowMs))

\* C26: a callback with the headers of several schemes is verified whenever
\* the headers of one of the schemes, on their own, pass parsing, recency
\* and signature comparison; malformed or stale headers of a scheme tried
\* earlier do not keep a later scheme from being tried.
C26_SchemesAreIndependent ==
    /\ probe.stage = 2
    /\ probe.also # NoSent
    /\ \/ VerifiesAlone(probe.sent, probe.body, WebhookSecret, now)
       \/ VerifiesAlone(probe.also, probe.body, WebhookSecret, now)
    => Verified(probe.originalRun)


\* the failure mode a rejection of the verifier stands for
RejectionMode(rejection) ==
    CASE rejection = "Missing webhook signature headers." -> "missing"
      [] rejection \in {"Malformed OpenAI webhook signature header.",
                        "Malformed Svix webhook signature headers.",
                        "Malformed Standard webhook signature headers.",
                        "Invalid Svix webhook timestamp.",
                        "Invalid Standard webhook timestamp."} -> "malformed"
      [] rejection \in {"OpenAI webhook timestamp outside the allowed tolerance.",
                        "Svix webhook timestamp outside the allowed tolerance.",
                        "Standard webhook timestamp outside the allowed tolerance."}
            -> "stale"
      [] rejection = "Webhook signature verification failed." -> "failed"
      [] OTHER -> "none"

\* the branch of the sender's scheme compared signatures with a digest
Compared(sent, headers, rawBody, secret, nowMs) ==
    CASE sent.scheme = "native" ->
             OpenAiBranch(rawBody, headers["x-openai-signature"], secret, nowMs).compared
      [] sent.scheme = "svix" ->
             SvixBranch(rawBody, headers, headers["svix-signature"], secret,
                        nowMs).compared
      [] sent.scheme = "standard" ->
             StandardBranch(rawBody, headers, headers["webhook-signature"], secret,
                            nowMs).compared
      [] OTHER -> FALSE

\* the failure modes of one delivery of a callback of one scheme
ModesInOrder(sent, headers, rawBody, r) ==
    LET mode == RejectionMode(r.rejection)
        unparsable == sent.timestampForm # "decimal" \/ sent.layout = "bare"
        stale == Abs(NowSeconds(now) - sent.timestamp) > SIGNATURE_TOLERANCE_SECONDS
        matching ==
            \E i \in 1..Len(sent.candidates) :
                sent.candidates[i] =
                    SchemeDigest(sent.scheme, sent.id, sent.timestamp, rawBody,
                                 WebhookSecret)
    IN  IF sent.scheme = "none" THEN mode = "missing"
        ELSE /\ unparsable => mode = "malformed"
             /\ ~unparsable /\ stale => mode = "stale"
             /\ mode = "failed" => ~unparsable /\ ~stale /\ ~matching
             /\ unparsable \/ stale =>
                    ~Compared(sent, headers, rawBody, WebhookSecret, now)

\* C28: within a scheme the verifier's failure modes are distinct and
\* ordered: no signature header is answered 'missing signature'; a timestamp
\* that does not parse or a header without a versioned value, 'malformed';
\* a timestamp more than 300 seconds from the clock, 'stale', also when a
\* signature would match; only a fresh, well-formed header whose candidates
\* all mismatch, 'verification failed'; and no signature is compared for a
\* stale or malformed header.
C28_FailureModesAreOrdered ==
    probe.also = NoSent =>
        /\ probe.stage >= 1 =>
               ModesInOrder(probe.sent, probe.headers, probe.tampered, probe.tamperedRun)
        /\ probe.stage = 2 =>
               ModesInOrder(probe.sent, probe.headers, probe.body, probe.originalRun)


(***************************************************************************)
(* Properties: concurrent writers of one record                            *)
(***************************************************************************)
\* C30: a delivery id that the stored ledger of a job holds stays in the
\* ledger in every later state of the store, until the record is deleted.
C30_LedgerIsAppendOnly ==
    [][\A j \in Jobs, w \in WebhookIds :
           /\ store[j].exists /\ store'[j].exists
           /\ Includes(store[j].processedWebhookIds, w)
           => Includes(store'[j].processedWebhookIds, w)]_vars


\* the callback was delivered, the cancel request was made, and both have
\* returned
BothFinished == probe.stage = 2 /\ started = 2 /\ \A p \in Slots : run[p].kind = "idle"

\* the record as it was before either writer: the one RaceInit stores
Original(j) ==
    NewJobRecord(j, "analysis", QUEUED, DEFAULT_RETENTION_DAYS, StartMs, StartMs)

\* C29: when one accepted callback and one cancel request race for a tracked
\* job that is not settled, every write stores the status, result and error
\* of its writer alone, so that the store holds those of the write that came
\* last; and once both have finished the stored status is terminal.
C29_LastWriterWins ==
    [][/\ \A p \in Slots :
              run[p].pc = "update_set" /\ run'[p].pc = "publish" =>
                  LET written == store'[run[p].job]
                      own == MergeRecord(Original(run[p].job), run[p].updates, now)
                  IN  /\ written.status = own.status
                      /\ written.result = own.result
                      /\ written.error = own.error
                      /\ Settled(written)
       /\ \A j \in Jobs :
              store'[j] # store[j] =>
                  \E p \in Slots : run[p].job = j /\ run[p].pc = "update_set"
                                   /\ run'[p].pc = "publish"
       /\ BothFinished' /\ probe.originalRun.rejection = "" =>
              \A j \in Jobs : Settled(store'[j])]_vars


(***************************************************************************)
(* Properties: replay, cancel protocol, notifications                      *)
(***************************************************************************)
\* C31: a callback of the provider-native or of the broker-style scheme
\* (svix-id, no webhook-id) that was accepted and applied, and is delivered
\* a second time, is acknowledged as a duplicate when it finds the record
\* settled: no second retrieval, no store write, no notification.
C31_ReplayOfEverySchemeIsNoOp ==
    \A p \in Slots :
        /\ probe.stage = 3 /\ run[p].kind = "webhook"
        /\ probe.also = NoSent /\ probe.sent.scheme \in {"native", "svix"}
        /\ Accepted(probe.originalRun)
        /\ Settled(run[p].tracked)
        => /\ run[p].pc = "done"
           /\ run[p].retrieves = 0
           /\ run[p].sets = 0
           /\ run[p].published = <<>>
           /\ run[p].response = HttpResponse(200, "Ack: duplicate")


\* C32: a cancel request for a tracked job that is queued or in progress,
\* with no other writer, calls the provider's cancellation once; only after
\* that call has returned it stores CANCELLED with reason cancelled_by_user
\* and result null; then it publishes one job-<jobType>-cancelled
\* notification and answers success with the updated record.
C32_CancelFollowsTheProtocol ==
    \A p \in Slots :
        /\ run[p].kind = "cancel"
        /\ run[p].tracked.exists /\ run[p].tracked.status \in {QUEUED, IN_PROGRESS}
        => /\ run[p].cancels <= 1
           /\ run[p].pc \in {"update_get", "update_set", "publish"} \/ run[p].sets > 0
                  => run[p].cancels = 1 /\ ~run[p].threw
           /\ run[p].published # <<>> => run[p].sets = 1
           /\ run[p].pc = "done" /\ ~run[p].threw =>
                  /\ run[p].cancels = 1 /\ run[p].sets = 1
                  /\ run[p].published =
                         <<"job-" \o run[p].tracked.jobType \o "-cancelled">>
                  /\ store[run[p].job].status = CANCELLED
                  /\ store[run[p].job].error.reason = "cancelled_by_user"
                  /\ store[run[p].job].result = NullResult
                  /\ run[p].response = Success(Sanitise(store[run[p].job]), "")
           /\ run[p].pc = "done" /\ run[p].threw =>
                  /\ run[p].sets = 0 /\ run[p].published = <<>>
                  /\ store[run[p].job] = run[p].tracked

\* a job in progress has been cancelled: one provider call, one write, one
\* notification, success
C32_Witness ==
    \E p \in Slots :
        /\ run[p].kind = "cancel" /\ run[p].pc = "done"
        /\ run[p].tracked.status = IN_PROGRESS
        /\ run[p].cancels = 1 /\ run[p].sets = 1
        /\ run[p].published = <<"job-response-cancelled">>
        /\ run[p].response.success
        /\ store[run[p].job].status = CANCELLED


\* the notification name that stands for a status
StatusSuffix(status) ==
    CASE status = COMPLETED -> "completed"
      [] status = FAILED -> "failed"
      [] status = CANCELLED -> "cancelled"
      [] OTHER -> ""

\* C33: a notification of the dispatcher or of cancel comes after the store
\* update of the same invocation, which set the job to the status the
\* notification names; its prefix is the jobType of the stored record; and
\* every such update is followed by one notification.
C33_NotificationsFollowTheStore ==
    \A p \in Slots :
        run[p].kind \in {"webhook", "cancel"} =>
            /\ Len(run[p].published) <= run[p].sets
            /\ run[p].sets <= 1
            /\ run[p].pc = "done" => Len(run[p].published) = run[p].sets
            /\ run[p].published # <<>> =>
                   /\ StatusSuffix(run[p].merged.status) # ""
                   /\ run[p].published[1] =
                          "job-" \o run[p].merged.jobType \o "-"
                              \o StatusSuffix(run[p].merged.status)
                   /\ store[run[p].job].exists =>
                          store[run[p].job].jobType = run[p].merged.jobType


(***************************************************************************)
(* Properties: the paged scan, reclaimable records, races, usage limits    *)
(***************************************************************************)
\* the keys whose record has expired
StoredExpired == {k \in DOMAIN store : IsExpired(store[k], now)}

\* the values the scan has passed when its cursor stands at this position
Passed(cursor) ==
    LET all == NamespaceFrom(1, store)
    IN  SubSeq(all, 1, IF cursor = NoCursor THEN 0 ELSE cursor - 1)

\* C34: a scan served in pages follows every cursor; the list it hands to
\* the cleanup is exactly the stored records that have expired, whichever
\* page they were on; a cleanup that meets no failed delete leaves no expired
\* record behind and reports the number it removed.
C34_ListExpiredIsCompleteAcrossPages ==
    \A p \in Slots :
        run[p].kind = "sweep" =>
            /\ run[p].pc = "scan" /\ run[p].gets > 0 =>
                   /\ run[p].cursor # NoCursor
                   /\ run[p].expired = ExpiredOf(Passed(run[p].cursor), now)
            /\ run[p].pc = "sweep_delete" =>
                   /\ {run[p].expired[i].jobId : i \in 1..Len(run[p].expired)}
                          = StoredExpired
                   /\ Len(run[p].expired) = Cardinality(StoredExpired)
                   /\ \A i \in 1..Len(run[p].expired) :
                          run[p].expired[i] = store[run[p].expired[i].jobId]
            /\ run[p].pc = "done" /\ ~run[p].threw =>
                   /\ StoredExpired = {}
                   /\ run[p].response = Pruned(run[p].deletes)
                   /\ started = 1 =>
                          run[p].deletes = Cardinality(created)
                              - Cardinality({k \in DOMAIN store : store[k].exists})

C34_Witness ==
    \E p \in Slots :
        /\ run[p].kind = "sweep" /\ run[p].pc = "done" /\ ~run[p].threw
        /\ run[p].gets = 3
        /\ run[p].response.success /\ run[p].response.pruned = 2
        /\ ~store[JobAt(1)].exists /\ ~store[JobAt(3)].exists
        /\ store[JobAt(2)].exists /\ store[JobAt(2)].expiresAt > now
        /\ {JobAt(1), JobAt(2), JobAt(3)} = created


\* C35: every stored job record carries the expiresAt that lets the sweep
\* find it, and the jobType it was created with, also when the sweep deletes
\* the record between a handler's read and its update.
C35_EveryStoredRecordIsReclaimable ==
    \A j \in DOMAIN store :
        store[j].exists =>
            /\ store[j].expiresAt # NoTime
            /\ store[j].jobType \in {"analysis", "response"}
            /\ store[j].createdAt # NoTime


\* C36: whichever way the submission's store write and the dispatcher run
\* for the job's one completion callback interleave, once the record is
\* stored and the dispatcher has acknowledged the callback, the stored job
\* is settled.
C36_CallbackSurvivesTheCreationRace ==
    /\ JobAt(1) \in created
    /\ probe.stage = 3
    /\ Accepted(probe.originalRun)
    /\ probe.originalRun.response.code = 200
    => /\ store[JobAt(1)].exists
       /\ store[JobAt(1)].status \in FINAL_STATUSES


\* C37: with every provider call gated by canMakeRequest and recorded by
\* trackCall, no stored daily record counts more than dailyLimit calls and
\* no stored hourly record more than hourlyLimit, however the calls of
\* concurrent invocations interleave.
C37_UsageLimitsAreNeverExceeded ==
    \A t \in ClockReadings :
        /\ store[getDateKey(t)].calls <= dailyLimit
        /\ store[getHourKey(t)].calls <= hourlyLimit

\* the calls that trackCall has recorded to its end
TrackedCalls == {p \in Slots : run[p].pc = "done" /\ run[p].tracked}

\* C38: when n trackCall invocations of one day have all ended, the day's
\* record counts n calls more than before, and n more embeddings and
\* completions together.
C38_UsageAccountingLosesNoCall ==
    (\A p \in Slots : run[p].pc \in {"idle", "done"}) =>
        LET before == probe.prior[getDateKey(StartMs)]
            after == store[getDateKey(StartMs)]
            n == Cardinality(TrackedCalls)
        IN  /\ after.calls = before.calls + n
            /\ after.embeddings + after.completions
                   = before.embeddings + before.completions + n

====
